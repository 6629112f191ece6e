----------------------------- MODULE ReportAgent -----------------------------
(***************************************************************************)
(* generate_report of agent/report.py: every report is built from the      *)
(* whole log, and nothing is kept from one call to the next.  It is what   *)
(* the incremental collection of ShimCollect has to look like.  Each read  *)
(* is a subprocess of its own, and the kernel measures in between.         *)
(***************************************************************************)
EXTENDS ImaLog

VARIABLES
    rawLog,     \* the kernel's log
    pc,         \* what the call does next
    call,       \* what it has read: pcr10, total and the leaves of the tree
    report      \* the last report that was returned, at first an empty one

vars == <<rawLog, pc, call, report>>

Nothing == [pcr10 |-> 0, total |-> 0, leaves |-> << >>]

Init ==
    /\ rawLog = << >>
    /\ pc = "pcrs"
    /\ call = Nothing
    /\ report = Nothing

\* read_pcrs: PCR 10 stands for the lines extended into it.
ReadPcrs ==
    /\ pc = "pcrs"
    /\ pc' = "summary"
    /\ call' = [Nothing EXCEPT !.pcr10 = Len(rawLog)]
    /\ UNCHANGED <<rawLog, report>>

\* read_ima_summary
ReadSummary ==
    /\ pc = "summary"
    /\ pc' = "log"
    /\ call' = [call EXCEPT !.total = Len(ReadLog(rawLog, 0))]
    /\ UNCHANGED <<rawLog, report>>

\* read_ima_log and build_ima_merkle_tree
BuildTree ==
    /\ pc = "log"
    /\ pc' = "quote"
    /\ call' = [call EXCEPT !.leaves = LeafHashes(ReadLog(rawLog, 0), 0)]
    /\ UNCHANGED <<rawLog, report>>

\* _run_tpm_quote, read_ek_cert, which may find nothing, and the return.
Quote ==
    /\ pc = "quote"
    /\ pc' = "pcrs"
    /\ report' = call
    /\ call' = Nothing
    /\ UNCHANGED rawLog

\* A command fails: the call raises, and there is no report.
Fail ==
    /\ pc # "pcrs"
    /\ pc' = "pcrs"
    /\ call' = Nothing
    /\ UNCHANGED <<rawLog, report>>

Measure(l) ==
    /\ rawLog' = Append(rawLog, l)
    /\ UNCHANGED <<pc, call, report>>

\* The process starts again, on the same log or after a reboot.
Restart ==
    /\ pc' = "pcrs"
    /\ call' = Nothing
    /\ report' = Nothing
    /\ rawLog' \in {rawLog, << >>}

Next ==
    \/ ReadPcrs \/ ReadSummary \/ BuildTree \/ Quote \/ Fail
    \/ \E l \in Line : Measure(l)
    \/ Restart

=============================================================================
