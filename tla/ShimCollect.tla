----------------------------- MODULE ShimCollect -----------------------------
(***************************************************************************)
(* _collect_report_incremental of phase3/shim.py: the report of one        *)
(* attestation, from a leaf cache that lives as long as the daemon.  The   *)
(* call reads the log three times, each time through a new subprocess,     *)
(* while the kernel goes on measuring, so every read is a step.  A report  *)
(* carries the leaves for their Merkle root (which determines them:        *)
(* RootTellsTheLog) and, for PCR 10, how many lines had been extended into *)
(* it.                                                                     *)
(***************************************************************************)
EXTENDS Merkle

VARIABLES
    rawLog,         \* the kernel's log, append-only until a reboot
    leafCache,      \* _IMA_LEAF_CACHE
    lineOffset,     \* _IMA_LINE_OFFSET
    pc,             \* what the call does next
    call,           \* what the call has read: pcr10 and total
    report          \* the last report that was returned, at first an empty one

vars == <<rawLog, leafCache, lineOffset, pc, call, report>>

Step == {"pcrs", "summary", "count", "read", "quote"}

NoCall == [pcr10 |-> 0, total |-> 0]

NoReport == [pcr10 |-> 0, total |-> 0, leaves |-> << >>]

Leaf == {"leaf"} \X Nat \X Entries

TypeOK ==
    /\ rawLog \in Seq(Line)
    /\ leafCache \in Seq(Leaf)
    /\ lineOffset \in Nat
    /\ pc \in Step
    /\ call \in [pcr10 : Nat, total : Nat]
    /\ report \in [pcr10 : Nat, total : Nat, leaves : Seq(Leaf)]

Init ==
    /\ rawLog = << >>
    /\ leafCache = << >>
    /\ lineOffset = 0
    /\ pc = "pcrs"
    /\ call = NoCall
    /\ report = NoReport

-----------------------------------------------------------------------------
\* read_pcrs; the call starts here.
ReadPcrs ==
    /\ pc = "pcrs"
    /\ pc' = "summary"
    /\ call' = [pcr10 |-> Len(rawLog), total |-> 0]
    /\ UNCHANGED <<rawLog, leafCache, lineOffset, report>>

\* read_ima_summary
ReadSummary ==
    /\ pc = "summary"
    /\ pc' = "count"
    /\ call' = [call EXCEPT !.total = Len(ReadLog(rawLog, 0))]
    /\ UNCHANGED <<rawLog, leafCache, lineOffset, report>>

\* read_ima_log_line_count; a log shorter than the cache flushes the cache.
CountLines ==
    /\ pc = "count"
    /\ pc' = "read"
    /\ IF LineCount(rawLog) < lineOffset
       THEN leafCache' = << >> /\ lineOffset' = 0
       ELSE UNCHANGED <<leafCache, lineOffset>>
    /\ UNCHANGED <<rawLog, call, report>>

\* A collection that keeps the leaves and forgets to move the offset:
ForgetOffset ==
    /\ pc = "read"
    /\ pc' = "quote"
    /\ leafCache' = leafCache \o LeafHashes(ReadLog(rawLog, lineOffset), lineOffset)
    /\ UNCHANGED <<rawLog, lineOffset, call, report>>

\* read_ima_log from the offset, and build_incremental_merkle_tree; the new
\* offset is the number of leaves.  The cache is kept whatever follows.
ReadNewLines ==
    /\ pc = "read"
    /\ pc' = "quote"
    /\ LET newEntries == ReadLog(rawLog, lineOffset)
           leaves     == leafCache \o LeafHashes(newEntries, lineOffset)
       IN  /\ leafCache' = leaves
           /\ lineOffset' = Len(leaves)
    /\ UNCHANGED <<rawLog, call, report>>

\* _run_tpm_quote succeeds and the report is returned.
Quote ==
    /\ pc = "quote"
    /\ pc' = "pcrs"
    /\ report' = [pcr10 |-> call.pcr10, total |-> call.total,
                  leaves |-> leafCache]
    /\ call' = NoCall
    /\ UNCHANGED <<rawLog, leafCache, lineOffset>>

\* A subprocess fails: RuntimeError, no report.
Fail ==
    /\ pc # "pcrs"
    /\ pc' = "pcrs"
    /\ call' = NoCall
    /\ UNCHANGED <<rawLog, leafCache, lineOffset, report>>

-----------------------------------------------------------------------------
\* The kernel measures a file: one more line, extended into PCR 10.
Measure(l) ==
    /\ rawLog' = Append(rawLog, l)
    /\ UNCHANGED <<leafCache, lineOffset, pc, call, report>>

ForgetAll ==
    /\ leafCache' = << >>
    /\ lineOffset' = 0
    /\ pc' = "pcrs"
    /\ call' = NoCall
    /\ report' = NoReport

\* The daemon is killed, or dies of an exception, and is started again.
RestartShim == ForgetAll /\ UNCHANGED rawLog

\* A reboot resets the log, and the daemon does not survive it.
Reboot == ForgetAll /\ rawLog' = << >>

Next ==
    \/ ReadPcrs \/ ReadSummary \/ CountLines \/ ReadNewLines \/ Quote \/ Fail
    \/ \E l \in Line : Measure(l)
    \/ RestartShim \/ Reboot

Spec == Init /\ [][Next]_vars

-----------------------------------------------------------------------------
(* Leaves carry their position and the offset is their number, so that the  *)
(* next batch continues the numbering, after failures and flushes too.      *)
LeavesAreNumbered ==
    /\ lineOffset = Len(leafCache)
    /\ \A k \in DOMAIN leafCache : leafCache[k][2] = k - 1

(* Whatever lines fail to parse, and however often the offset goes astray   *)
(* or the cache is flushed for it: an entry extended into the reported      *)
(* PCR 10 is among the reported leaves.                                     *)
NoMeasurementLost ==
    \A i \in 1..report.pcr10 :
        rawLog[i] # Malformed =>
            \E k \in DOMAIN report.leaves : report.leaves[k][3] = rawLog[i]

LogsUpTo(n) == UNION { [1..k -> Entries] : k \in 0..n }

RootTells(Logs) ==
    LET root == TreeOf(report.leaves).root
    IN  \A log \in Logs : BuildTree(log).root = root =>
            /\ \A i \in 1..report.pcr10 : rawLog[i] # Malformed =>
                   \E k \in DOMAIN log : log[k] = rawLog[i]
            /\ \A k \in DOMAIN log :
                   \E i \in DOMAIN rawLog : rawLog[i] = log[k]

(* What a root stands for that the server has pinned: whatever log it was   *)
(* built from, a report with this root comes from a machine that has        *)
(* measured no entry outside that log, as far as its PCR 10 tells, and has  *)
(* measured every entry of it.                                              *)
RootTellsTheLog == RootTells(LogsUpTo(Len(rawLog)))

Clean == WellFormed(rawLog) = DOMAIN rawLog

(* On a log whose lines all parse, the incremental leaves are those of a    *)
(* full rebuild of the log as it was at one moment of the call, after PCR   *)
(* 10 and the summary were read.                                            *)
CleanReportIsRebuild ==
    Clean =>
        LET n == Len(report.leaves)
        IN  /\ report.pcr10 <= report.total
            /\ report.total <= n
            /\ n <= Len(rawLog)
            /\ report.leaves = LeafHashes(SubSeq(rawLog, 1, n), 0)

(* What generate_report does, seen through the cache: counting and reading  *)
(* are one step of its, and the leaves of the call are those of the cache   *)
(* once the new lines are in.                                               *)
Agent ==
    INSTANCE ReportAgent WITH
        pc   <- IF pc \in {"count", "read"} THEN "log" ELSE pc,
        call <- [pcr10  |-> call.pcr10,
                 total  |-> call.total,
                 leaves |-> IF pc = "quote" THEN leafCache ELSE << >>]

(* "On the first call this behaves identically to generate_report()", and   *)
(* on a log whose lines all parse on every call: reading the new lines only *)
(* is a way of reading them all, after failures, restarts and reboots too.  *)
ActsAsAgent ==
    /\ Agent!Init
    /\ [][(pc = "read" => Clean \/ lineOffset = 0) =>
              [Agent!Next]_Agent!vars]_vars

(* As the tests and the paper state it, whatever the lines: appending new   *)
(* leaves to the cache gives what a full rebuild gives.                     *)
IncrementalIsRebuild ==
    \E n \in report.pcr10..Len(rawLog) :
        report.leaves = LeafHashes(Parsed(SubSeq(rawLog, 1, n)), 0)

=============================================================================
