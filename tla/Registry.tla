------------------------------ MODULE Registry ------------------------------
(***************************************************************************)
(* The table enrolled_machines of server/main.py: POST /register with its  *)
(* EK check, and the lookups made while a report is verified.              *)
(*                                                                         *)
(* What a client sends as ek_cert_b64 is                                   *)
(*                                                                         *)
(*    none    absent, or the empty string                                  *)
(*    short   not base64, or less than four bytes                          *)
(*    x509    a DER certificate that parses                                *)
(*    raw     a TPM2B_PUBLIC                                               *)
(*    junk    any other four bytes or more                                 *)
(*                                                                         *)
(* The code tells raw and junk from the others and not from each other:    *)
(* what is no certificate and not too short, it takes for a key.           *)
(***************************************************************************)
CONSTANTS
    Machine,    \* machine ids
    NoMachine,  \* machine_id = None in a report
    Key,        \* attestation keys
    NoKey,      \* the server's TPM has no key at _AK_HANDLE
    ServerKey,  \* the key at _AK_HANDLE of the server's own TPM, or NoKey
    NoRow       \* the result of a SELECT that finds nothing

EkKind == {"none", "short", "junk", "raw", "x509"}

MachineRow == [ak : Key, ek : EkKind, verified : BOOLEAN]

ASSUME RegistryAssumption ==
    /\ NoMachine \notin Machine
    /\ NoKey \notin Key
    /\ ServerKey \in Key \cup {NoKey}
    /\ NoRow \notin MachineRow

VARIABLE enrolledMachines   \* enrolled_machines: row by primary key

RegistryTypeOK == enrolledMachines \in [Machine -> MachineRow \cup {NoRow}]

RegistryInit == enrolledMachines = [m \in Machine |-> NoRow]

\* _get_enrolled_machine; callers skip it when machine_id is empty.
GetEnrolledMachine(m) ==
    IF m \in Machine THEN enrolledMachines[m] ELSE NoRow

\* An EK check that ignores STRICT_EK_VERIFICATION for raw keys:
AcceptAnyKey(ek, strict) == ek \in {"junk", "raw", "x509"}

\* _verify_ek_cert: what is taken for a raw key passes unless the server
\* runs strict.
VerifyEkCert(ek, strict) == ek = "x509" \/ (ek \in {"junk", "raw"} /\ ~strict)

(***************************************************************************)
(* register: a certificate that does not verify is refused and nothing is  *)
(* stored; otherwise the row is inserted or, on conflict, replaced.        *)
(***************************************************************************)
\* An INSERT that leaves the row alone when there is one:
RegisterOnce(m, ak, ek, strict) ==
    /\ ek # "none" => VerifyEkCert(ek, strict)
    /\ enrolledMachines' =
           [enrolledMachines EXCEPT
               ![m] = IF @ # NoRow THEN @
                      ELSE [ak       |-> ak,
                            ek       |-> ek,
                            verified |-> ek # "none"]]

RegisterMachine(m, ak, ek, strict) ==
    /\ ek # "none" => VerifyEkCert(ek, strict)
    /\ enrolledMachines' =
           [enrolledMachines EXCEPT
               ![m] = [ak       |-> ak,
                       ek       |-> ek,
                       verified |-> ek # "none"]]

\* The key _verify_quote_signature hands to tpm2_checkquote.
QuoteKey(row) == IF row # NoRow THEN row.ak ELSE ServerKey

=============================================================================
