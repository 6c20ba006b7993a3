------------------------------- MODULE Symbols -------------------------------
(***************************************************************************)
(* What loading promises about names: a load takes effect at once, when it *)
(* returns, or not at all.  A file sees its own functions and the public   *)
(* ones of the files before it; of its functions the public ones are seen  *)
(* by the files after it.                                                  *)
(***************************************************************************)
EXTENDS Naturals, Sequences, FiniteSetsExt, SequencesExt

CONSTANTS
    Name,                   \* names of functions
    HostFunctions           \* those the host has functions for

VARIABLES
    table,                  \* the public function of a name
    loads                   \* what was read, found for names, and if it went well

Nobody == <<0, 0>>
NamedIn(read, name) == {p \in DOMAIN read : read[p].name = name}
PublicIn(read, name) == {p \in NamedIn(read, name) : read[p].pub}

(* The file's own function goes first, and of those the first.             *)
Meaning(read, name) ==
    IF NamedIn(read, name) # {} THEN <<Len(loads) + 1, Min(NamedIn(read, name))>>
    ELSE IF name \in DOMAIN table THEN table[name]
    ELSE Nobody

(* All public functions of the file, and of one name the last.             *)
AllPublished(read) ==
    [name \in DOMAIN table \cup {n \in Name : PublicIn(read, n) # {}} |->
        IF PublicIn(read, name) # {} THEN <<Len(loads) + 1, Max(PublicIn(read, name))>>
        ELSE table[name]]

Accept(l) ==
    /\ l.ok
    /\ \A b \in l.bound : b.to = Meaning(l.read, b.name)
    /\ table' = AllPublished(l.read)
Refuse(l) == ~l.ok /\ UNCHANGED table

Init == table = [name \in HostFunctions |-> <<0, 1>>] /\ loads = <<>>
Next ==
    /\ Len(loads') = Len(loads) + 1
    /\ LET l == Last(loads')
       IN  loads' = Append(loads, l) /\ (Accept(l) \/ Refuse(l))

Spec == Init /\ [][Next]_<<table, loads>>
=============================================================================
