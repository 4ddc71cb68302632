-------------------------- MODULE SharedConverter --------------------------
(***************************************************************************)
(* What ClippyShotEngine._get_converter promises to the jobs of one        *)
(* engine: a converter is built at most once and every job is given that   *)
(* one; a job may be turned away instead, but only while there is none.    *)
(***************************************************************************)
CONSTANTS Jobs, Values, NoValue, Refused

VARIABLES
    value,   \* the engine's one converter
    got      \* what each job was given

vars == <<value, got>>

Init ==
    /\ value = NoValue
    /\ got = [j \in Jobs |-> NoValue]

Waiting(j) == got[j] = NoValue

\* The first job that can builds the converter, and is given it.
Build(j) ==
    /\ Waiting(j) /\ value = NoValue
    /\ value' \in Values
    /\ got' = [got EXCEPT ![j] = value']

Take(j) ==
    /\ Waiting(j) /\ value # NoValue
    /\ got' = [got EXCEPT ![j] = value]
    /\ UNCHANGED value

Refuse(j) ==
    /\ Waiting(j) /\ value = NoValue
    /\ got' = [got EXCEPT ![j] = Refused]
    /\ UNCHANGED value

Next == \E j \in Jobs : Build(j) \/ Take(j) \/ Refuse(j)

Spec == Init /\ [][Next]_vars

\* No two jobs were given different converters, whenever and in whatever order they asked.
OneConverter == \A i, j \in Jobs : got[i] \in Values /\ got[j] \in Values => got[i] = got[j]
=============================================================================
