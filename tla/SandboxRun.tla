----------------------------- MODULE SandboxRun -----------------------------
(***************************************************************************)
(* run() of the three sandbox backends, called by several threads at once, *)
(* each with a process tree of its own: the process that was started, what *)
(* it forked, and what left its session.  A run ends by itself, or at its  *)
(* deadline, with the tree killed and the pipes drained.                   *)
(*                                                                         *)
(* The programs are external: they fork, exit and hang as they please.     *)
(***************************************************************************)
EXTENDS FiniteSets

CONSTANTS
    Threads,
    Backends   \* the backends considered: of "container", "bwrap", "nsjail"

ASSUME SandboxAssumption == Backends \subseteq {"container", "bwrap", "nsjail"}

VARIABLES
    backend,   \* the one the selection chose
    run,       \* where each thread's run() stands
    alive,     \* the living processes of its tree, all of which hold its pipes
    status,    \* how the started process ended
    late,      \* the run was stopped at its deadline
    result     \* the exit code and the killed flag run() returned

sandboxVars == <<backend, run, alive, status, late, result>>

\* A descendant with a session of its own is out of killpg's reach.
Processes == {"leader", "child", "session"}

\* sigkill: -SIGKILL.  deadline: 109, 137 or 143, nsjail's for a child it stopped.
Exits == {"none", "ok", "nonzero", "sigkill", "deadline"}

NoResult == [exit |-> "none", killed |-> FALSE]
Raised == [exit |-> "SandboxError", killed |-> FALSE]

SandboxTypeOK ==
    /\ backend \in Backends
    /\ run \in [Threads -> {"idle", "running", "killing", "returned"}]
    /\ alive \in [Threads -> SUBSET Processes]
    /\ status \in [Threads -> Exits]
    /\ late \in [Threads -> BOOLEAN]
    /\ result \in [Threads -> [exit : Exits \cup {"SandboxError"}, killed : BOOLEAN]]

SandboxInit ==
    /\ backend \in Backends
    /\ run = [t \in Threads |-> "idle"]
    /\ alive = [t \in Threads |-> {}]
    /\ status = [t \in Threads |-> "none"]
    /\ late = [t \in Threads |-> FALSE]
    /\ result = [t \in Threads |-> NoResult]

Namespaced == backend \in {"bwrap", "nsjail"}

-----------------------------------------------------------------------------
(* The call.                                                               *)

Launch(t) ==
    /\ run[t] = "idle"
    /\ run' = [run EXCEPT ![t] = "running"]
    /\ alive' = [alive EXCEPT ![t] = {"leader"}]
    /\ status' = [status EXCEPT ![t] = "none"]
    /\ late' = [late EXCEPT ![t] = FALSE]
    /\ result' = [result EXCEPT ![t] = NoResult]
    /\ UNCHANGED backend

\* The program, or bwrap, or nsjail, is not there: SandboxError.
LaunchFails(t) ==
    /\ run[t] = "idle"
    /\ run' = [run EXCEPT ![t] = "returned"]
    /\ alive' = [alive EXCEPT ![t] = {}]
    /\ late' = [late EXCEPT ![t] = FALSE]
    /\ result' = [result EXCEPT ![t] = Raised]
    /\ UNCHANGED <<backend, status>>

Return(t, exit, killed) ==
    /\ run' = [run EXCEPT ![t] = "returned"]
    /\ result' = [result EXCEPT ![t] = [exit |-> exit, killed |-> killed]]
    /\ UNCHANGED <<backend, alive, status, late>>

\* communicate() returns when the pipes are closed.  nsjail's own deadline is
\* read from the exit code (_is_deadline_kill), which is passed on as it is.
Drained(t) ==
    /\ run[t] = "running" /\ alive[t] = {}
    /\ Return(t, status[t], status[t] = "deadline")

KillLeaderOnly(t) ==
    /\ run[t] = "running" /\ alive[t] # {}
    /\ run' = [run EXCEPT ![t] = "killing"]
    /\ alive' = [alive EXCEPT ![t] = @ \ {"leader"}]
    /\ late' = [late EXCEPT ![t] = TRUE]
    /\ UNCHANGED <<backend, status, result>>

\* TimeoutExpired: killpg of the process group, or kill() of the process that
\* the namespace dies with.
Deadline(t) ==
    /\ run[t] = "running" /\ alive[t] # {}
    /\ run' = [run EXCEPT ![t] = "killing"]
    /\ alive' = [alive EXCEPT ![t] = @ \ (IF Namespaced THEN {"leader"} ELSE {"leader", "child"})]
    /\ late' = [late EXCEPT ![t] = TRUE]
    /\ UNCHANGED <<backend, status, result>>

KillDrained(t) ==
    /\ run[t] = "killing" /\ alive[t] = {}
    /\ Return(t, "sigkill", TRUE)

NeverGivesUp(t) == FALSE /\ UNCHANGED sandboxVars

\* The container backend reads for one second more and then gives up.
GiveUpDraining(t) ==
    /\ run[t] = "killing" /\ ~Namespaced /\ alive[t] # {}
    /\ Return(t, "sigkill", TRUE)

-----------------------------------------------------------------------------
(* The processes.                                                          *)

Fork(t) ==
    /\ "leader" \in alive[t]
    /\ \E p \in Processes \ alive[t] : alive' = [alive EXCEPT ![t] = @ \cup {p}]
    /\ UNCHANGED <<backend, run, status, late, result>>

\* By itself, from a crash, or killed for its memory; a namespace ends with the
\* process that was started.
LeaderExits(t) ==
    /\ "leader" \in alive[t]
    /\ alive' = [alive EXCEPT ![t] = IF Namespaced THEN {} ELSE @ \ {"leader"}]
    /\ \E s \in {"ok", "nonzero", "sigkill"} : status' = [status EXCEPT ![t] = s]
    /\ UNCHANGED <<backend, run, late, result>>

DescendantExits(t) ==
    /\ \E p \in alive[t] \ {"leader"} : alive' = [alive EXCEPT ![t] = @ \ {p}]
    /\ UNCHANGED <<backend, run, status, late, result>>

\* --time_limit, five seconds before run() would stop nsjail itself.
JailDeadline(t) ==
    /\ backend = "nsjail" /\ run[t] = "running" /\ "leader" \in alive[t]
    /\ alive' = [alive EXCEPT ![t] = {}]
    /\ status' = [status EXCEPT ![t] = "deadline"]
    /\ late' = [late EXCEPT ![t] = TRUE]
    /\ UNCHANGED <<backend, run, result>>

\* --die-with-parent, and the end of a pid namespace.
Teardown(t) ==
    /\ Namespaced /\ alive[t] # {} /\ "leader" \notin alive[t]
    /\ alive' = [alive EXCEPT ![t] = {}]
    /\ UNCHANGED <<backend, run, status, late, result>>

\* What time and the kernel bring about, and what the program may do.
RunStep(t) ==
    Drained(t) \/ Deadline(t) \/ KillDrained(t) \/ GiveUpDraining(t) \/ Teardown(t)

ProgramStep(t) == Fork(t) \/ LeaderExits(t) \/ DescendantExits(t) \/ JailDeadline(t)

-----------------------------------------------------------------------------
\* container.py:203 "Isolate in a new process group for reliable cleanup": when
\* run() says it killed the program, nothing of it is left, but for what left
\* the session on the container backend.
KilledIsGone ==
    \A t \in Threads :
        run[t] = "returned" /\ result[t].killed =>
            alive[t] \subseteq (IF Namespaced THEN {} ELSE {"session"})
=============================================================================
