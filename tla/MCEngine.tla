------------------------------ MODULE MCEngine ------------------------------
(* Instances of Engine for TLC.                                            *)
EXTENDS Engine

CONSTANTS j1, j2

TwoJobs == {j1, j2}

\* Every kind of selection the deployments can make flip between warmup and the first job:
\* a worker container that also ships nsjail, nsjail off PATH, a bare host, a forced
\* container (the warm tiers), nono around it, with and without Landlock.  bwrap and nsjail
\* differ in nothing Engine looks at; one deployment has both.
WarmHosts ==
    [found : {{"container"}, {"nsjail", "container"}, {"nsjail"}}, onPath : BOOLEAN,
     forced : {"auto", "container"}, nono : {"off", "on"}, warmUno : {TRUE}, warmOcr : {TRUE},
     cli : {FALSE}, listening : BOOLEAN]

ColdHosts ==
    [found : {{"container"}, {"nsjail", "container"}}, onPath : {TRUE}, forced : {"auto"},
     nono : {"off", "no_landlock"}, warmUno : {FALSE}, warmOcr : {FALSE}, cli : BOOLEAN,
     listening : {FALSE}]

BothJails ==
    [found : {{"nsjail", "bwrap"}}, onPath : {TRUE}, forced : {"auto", "nsjail"},
     nono : {"off"}, warmUno : {TRUE}, warmOcr : {TRUE}, cli : {FALSE}, listening : {FALSE}]

AllHosts == WarmHosts \cup ColdHosts \cup BothJails

=============================================================================
