-------------------------- MODULE SchemeLifecycle --------------------------
(***************************************************************************)
(* consensus/scheme_lifecycle.cpp: when a signature scheme may lock new    *)
(* outputs.  The node does not consult it yet.                             *)
(***************************************************************************)
EXTENDS Integers, SequencesExt

CONSTANTS KnownSchemes, \* crypto::KnownSchemes, ids from 1
          Never         \* 0xFFFFFFFF

DefaultEntry(scheme) ==
    [scheme_id |-> scheme, activation_height |-> 0, deprecation_height |-> Never, retirement_height |-> Never]
DefaultRegistry == [i \in 1..KnownSchemes |-> DefaultEntry(i)]

EntryOf(entries, scheme) == SelectInSeq(entries, LAMBDA e : e.scheme_id = scheme)

\* The entry of a scheme is replaced, or a new one added.
Register(entries, lifecycle) ==
    LET at == EntryOf(entries, lifecycle.scheme_id)
    IN  IF at = 0 THEN Append(entries, lifecycle) ELSE [entries EXCEPT ![at] = lifecycle]

\* Mutant: deprecation is looked at before retirement.
GetStateMild(entries, scheme, height) ==
    LET at == EntryOf(entries, scheme)
    IN  IF scheme = 0 THEN "Retired"
        ELSE IF at = 0 THEN "Pending"
        ELSE IF height < entries[at].activation_height THEN "Pending"
        ELSE IF height >= entries[at].deprecation_height THEN "Deprecated"
        ELSE IF height >= entries[at].retirement_height THEN "Retired"
        ELSE "Active"
GetState(entries, scheme, height) ==
    LET at == EntryOf(entries, scheme)
    IN  IF scheme = 0 THEN "Retired"
        ELSE IF at = 0 THEN "Pending"
        ELSE IF height < entries[at].activation_height THEN "Pending"
        ELSE IF height >= entries[at].retirement_height THEN "Retired"
        ELSE IF height >= entries[at].deprecation_height THEN "Deprecated"
        ELSE "Active"

MayCreateOutput(entries, scheme, height) == GetState(entries, scheme, height) = "Active"
IsSpendable(entries, scheme, height) == scheme # 0
=============================================================================
