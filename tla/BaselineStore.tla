---------------------------- MODULE BaselineStore ----------------------------
(***************************************************************************)
(* The table baselines of server/main.py.  The row with id i is the i-th   *)
(* element of the sequence (AUTOINCREMENT; rows are never deleted).  Of    *)
(* pcr_json only the entry for PCR 7 is ever read back.                    *)
(***************************************************************************)
EXTENDS Naturals, Sequences

CONSTANTS
    Root,       \* IMA Merkle roots
    Pcr7,       \* values of PCR 7
    NoRoot,     \* no active baseline: _get_active_ima_root returns None
    NoPcr7      \* no PCR 7 in the map: _get_pinned_pcr returns None

ASSUME BaselineAssumption == NoRoot \notin Root /\ NoPcr7 \notin Pcr7

VARIABLE baselines

BaselineRow ==
    [root : Root, pcr7 : Pcr7 \cup {NoPcr7}, active : BOOLEAN]

BaselineTypeOK == baselines \in Seq(BaselineRow)

BaselineInit == baselines = << >>

ActiveIds == { i \in DOMAIN baselines : baselines[i].active }

\* ORDER BY id DESC LIMIT 1 over the active rows.
NewestActive == CHOOSE i \in ActiveIds : \A j \in ActiveIds : j <= i

\* _get_active_ima_root
ActiveRoot ==
    IF ActiveIds = {} THEN NoRoot ELSE baselines[NewestActive].root

\* _get_pinned_pcr("7")
ActivePcr7 ==
    IF ActiveIds = {} THEN NoPcr7 ELSE baselines[NewestActive].pcr7

\* UPDATE baselines SET is_active = 0
AllInactive ==
    [i \in DOMAIN baselines |-> [baselines[i] EXCEPT !.active = FALSE]]

\* A new root beside the PCR 7 of the baseline it replaces:
PinRootOnly(root, pcr7) ==
    baselines' = Append(AllInactive,
                        [root |-> root, pcr7 |-> ActivePcr7, active |-> TRUE])

\* _pin_baseline: deactivate all and insert, in one transaction.
PinBaseline(root, pcr7) ==
    baselines' = Append(AllInactive,
                        [root |-> root, pcr7 |-> pcr7, active |-> TRUE])

\* The row the rollback of enroll reactivates: MAX(id) with that root.
IsNewestWithRoot(i, root) ==
    /\ baselines[i].root = root
    /\ \A j \in DOMAIN baselines : baselines[j].root = root => j <= i

\* A rollback that leaves every row inactive:
RestoreNothing(root) == UNCHANGED baselines

RestoreBaseline(root) ==
    baselines' =
        [i \in DOMAIN baselines |->
            IF IsNewestWithRoot(i, root)
            THEN [baselines[i] EXCEPT !.active = TRUE]
            ELSE baselines[i]]

=============================================================================
