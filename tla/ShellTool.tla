----------------------------- MODULE ShellTool -----------------------------
(***************************************************************************)
(* ShellTool::execute of src/tools/shell.rs, for several invocations that  *)
(* run concurrently (the tool calls of one agent round).                   *)
(*                                                                         *)
(* An invocation parses its arguments, spawns `sh -c command` (eagerly,    *)
(* inside Command::output) and races the child against                     *)
(* tokio::time::timeout.  Time is counted in seconds per invocation from   *)
(* its spawn; a step of Tick is one second of the runtime's clock, taken   *)
(* only when no child is due to exit and no timer is due to fire, and      *)
(* counted up to MaxClock.  A command may never exit (Forever).  The       *)
(* child's output is abstracted to whether stdout and stderr are empty and *)
(* its exit status; the result text to the sequence of pieces execute      *)
(* pushes.                                                                 *)
(***************************************************************************)
EXTENDS Integers, Sequences

CONSTANTS
    Calls,        \* concurrent invocations of execute
    TimeoutVals,  \* u64 values a caller may pass as "timeout"
    Durations,    \* how long a command runs, in seconds
    ExitCodes,    \* exit codes a command may end with (0 = success)
    Signalled,    \* the status of a child killed by a signal (no code)
    Forever,      \* the duration of a command that never exits
    MaxClock      \* seconds counted per child; time stops there

ASSUME CallsAssumption == Calls # {}
ASSUME TimeoutValsAssumption == TimeoutVals \subseteq Nat
ASSUME ForeverAssumption == Forever \notin Nat
ASSUME DurationsAssumption == Durations # {} /\ Durations \subseteq (Nat \ {0}) \cup {Forever}
ASSUME MaxClockAssumption == MaxClock \in Nat
ASSUME ExitCodesAssumption == 0 \in ExitCodes /\ ExitCodes \subseteq Int
ASSUME SignalledAssumption == Signalled \notin Int

VARIABLES
    pc,       \* pc[c]: "idle", "waiting" (awaiting the timeout future), "returned"
    res,      \* res[c]: what execute returned
    proc,     \* proc[c]: "none", "running" or "exited": the child process
    elapsed,  \* elapsed[c]: seconds since c's child was spawned
    limit,    \* limit[c]: timeout_secs of c
    dur,      \* dur[c]: how long c's command runs
    targ,     \* targ[c]: the "timeout" argument c was called with
    status,   \* status[c]: the exit status of c's child
    out,      \* out[c]: c's child wrote to stdout
    err       \* err[c]: c's child wrote to stderr

vars == <<pc, res, proc, elapsed, limit, dur, targ, status, out, err>>

-----------------------------------------------------------------------------

\* The default of `timeout`, in seconds (line 78).
DefaultTimeout == 60

\* What args["timeout"] may be: missing, a u64, or the same number of
\* seconds given as a JSON value as_u64 does not take (1.0, "1").
TimeoutArgs ==
    {[given |-> g, secs |-> v] : g \in {"u64", "not_u64"}, v \in TimeoutVals}
        \cup {[given |-> "missing", secs |-> 0]}

\* args.get("timeout").and_then(|v| v.as_u64()).unwrap_or(60)
timeout_secs(a) == IF a.given = "u64" THEN a.secs ELSE DefaultTimeout

Statuses == ExitCodes \cup {Signalled}

\* output.status.success()
Success(st) == st = 0

\* Mutants: the code of a signalled child taken as it is, or as 0.
ExitCodeRaw(st) == st
ExitCodeZero(st) == IF st = Signalled THEN 0 ELSE st

\* output.status.code().unwrap_or(-1)
ExitCode(st) == IF st = Signalled THEN -1 ELSE st

\* The pieces of the result text.
Stdout == [piece |-> "stdout"]
Separator == [piece |-> "separator"]
Stderr == [piece |-> "stderr"]
ExitNote(code) == [piece |-> "exit", code |-> code]

\* Lines 102-120: the result text execute builds from the child's output.
Render(o, e, st) ==
    LET r1 == IF o THEN <<Stdout>> ELSE <<>>
        r2 == IF e THEN r1 \o (IF r1 # <<>> THEN <<Separator>> ELSE <<>>) \o <<Stderr>>
                   ELSE r1
    IN  IF ~Success(st) THEN Append(r2, ExitNote(ExitCode(st))) ELSE r2

Ok(text) == [kind |-> "ok", text |-> text]
Err(why) == [kind |-> "err", why |-> why]
NoResult == [kind |-> "none"]

-----------------------------------------------------------------------------

Init ==
    /\ pc = [c \in Calls |-> "idle"]
    /\ res = [c \in Calls |-> NoResult]
    /\ proc = [c \in Calls |-> "none"]
    /\ elapsed = [c \in Calls |-> 0]
    /\ limit = [c \in Calls |-> DefaultTimeout]
    /\ dur = [c \in Calls |-> CHOOSE d \in Durations : TRUE]
    /\ targ = [c \in Calls |-> [given |-> "missing", secs |-> 0]]
    /\ status = [c \in Calls |-> 0]
    /\ out = [c \in Calls |-> FALSE]
    /\ err = [c \in Calls |-> FALSE]

\* Lines 73-76: a missing or non-string command fails before anything runs.
InvokeMissingCommand(c) ==
    /\ pc[c] = "idle"
    /\ pc' = [pc EXCEPT ![c] = "returned"]
    /\ res' = [res EXCEPT ![c] = Err("missing_command")]
    /\ UNCHANGED <<proc, elapsed, limit, dur, targ, status, out, err>>

\* Lines 78-96: spawning sh fails (no shell, a workspace that is not a
\* directory): the `?` on the inner io::Result returns it.
InvokeSpawnFails(c) ==
    /\ pc[c] = "idle"
    /\ pc' = [pc EXCEPT ![c] = "returned"]
    /\ res' = [res EXCEPT ![c] = Err("spawn_failed")]
    /\ UNCHANGED <<proc, elapsed, limit, dur, targ, status, out, err>>

\* Lines 73-93: the command is a string; the child is spawned, with
\* timeout_secs from the arguments, and the call awaits the timeout future.
InvokeSpawn(c) ==
    /\ pc[c] = "idle"
    /\ \E a \in TimeoutArgs, d \in Durations :
          /\ limit' = [limit EXCEPT ![c] = timeout_secs(a)]
          /\ dur' = [dur EXCEPT ![c] = d]
          /\ targ' = [targ EXCEPT ![c] = a]
    /\ pc' = [pc EXCEPT ![c] = "waiting"]
    /\ proc' = [proc EXCEPT ![c] = "running"]
    /\ elapsed' = [elapsed EXCEPT ![c] = 0]
    /\ UNCHANGED <<res, status, out, err>>

\* c's child has exited: its command has run for its duration.
Exited(c) == dur[c] # Forever /\ elapsed[c] >= dur[c]

\* Mutant: a timeout of 0 taken to mean no timeout.
TimerDueZeroDisarmed(c) == limit[c] > 0 /\ elapsed[c] >= limit[c]

\* c's tokio::time::timeout deadline has passed.
TimerDue(c) == elapsed[c] >= limit[c]

\* Lines 93-120: the child exits before the timer; its output is collected
\* and the result text rendered.
ChildExits(c) ==
    /\ pc[c] = "waiting"
    /\ proc[c] = "running"
    /\ Exited(c)
    /\ \E o, e \in BOOLEAN, st \in Statuses :
          /\ out' = [out EXCEPT ![c] = o]
          /\ err' = [err EXCEPT ![c] = e]
          /\ status' = [status EXCEPT ![c] = st]
          /\ res' = [res EXCEPT ![c] = Ok(Render(o, e, st))]
    /\ proc' = [proc EXCEPT ![c] = "exited"]
    /\ pc' = [pc EXCEPT ![c] = "returned"]
    /\ UNCHANGED <<elapsed, limit, dur, targ>>

\* Lines 93-95: the timer fires first; the output future, and with it the
\* Child, is dropped.  tokio does not kill a dropped Child unless
\* kill_on_drop is set, so the process keeps running.
TimeoutFires(c) ==
    /\ pc[c] = "waiting"
    /\ proc[c] = "running"
    /\ TimerDue(c)
    /\ pc' = [pc EXCEPT ![c] = "returned"]
    /\ res' = [res EXCEPT ![c] = Err("timed_out")]
    /\ UNCHANGED <<proc, elapsed, limit, dur, targ, status, out, err>>

\* A child whose call has returned exits in the background (reaped by the
\* runtime's orphan queue).
OrphanExits(c) ==
    /\ pc[c] = "returned"
    /\ proc[c] = "running"
    /\ Exited(c)
    /\ proc' = [proc EXCEPT ![c] = "exited"]
    /\ UNCHANGED <<pc, res, elapsed, limit, dur, targ, status, out, err>>

\* Nothing a waiting call awaits is due: its child has not exited and its
\* timer has not reached its deadline (the runtime polls promptly).
NothingDue ==
    \A c \in Calls : pc[c] = "waiting" => ~Exited(c) /\ ~TimerDue(c)

\* A running child whose seconds are still counted, up to MaxClock.  Once
\* its call has returned they only decide when it exits, so they are not
\* counted for a child that has exited or never will.
Counted(c) ==
    /\ proc[c] = "running"
    /\ elapsed[c] < MaxClock
    /\ pc[c] = "waiting" \/ (dur[c] # Forever /\ ~Exited(c))

\* One second passes for every running child.
Tick ==
    /\ \E c \in Calls : Counted(c)
    /\ NothingDue
    /\ elapsed' = [c \in Calls |-> IF Counted(c) THEN elapsed[c] + 1 ELSE elapsed[c]]
    /\ UNCHANGED <<pc, res, proc, limit, dur, targ, status, out, err>>

Next ==
    \/ \E c \in Calls :
          \/ InvokeMissingCommand(c)
          \/ InvokeSpawnFails(c)
          \/ InvokeSpawn(c)
          \/ ChildExits(c)
          \/ TimeoutFires(c)
          \/ OrphanExits(c)
    \/ Tick

Spec == Init /\ [][Next]_vars

\* The tokio runtime keeps polling every task: a due timer fires, the
\* output of an exited child is collected, and time passes.
FairSpec ==
    /\ Spec
    /\ \A c \in Calls : WF_vars(ChildExits(c)) /\ WF_vars(TimeoutFires(c))
    /\ WF_vars(Tick)

-----------------------------------------------------------------------------
(* Properties.                                                             *)

Pieces == {Stdout, Separator, Stderr} \cup [piece : {"exit"}, code : Int]

\* Every variable holds a value of its type.
TypeOK ==
    /\ pc \in [Calls -> {"idle", "waiting", "returned"}]
    /\ proc \in [Calls -> {"none", "running", "exited"}]
    /\ elapsed \in [Calls -> 0..MaxClock]
    /\ limit \in [Calls -> Nat]
    /\ dur \in [Calls -> Durations]
    /\ targ \in [Calls -> TimeoutArgs]
    /\ status \in [Calls -> Statuses]
    /\ out \in [Calls -> BOOLEAN]
    /\ err \in [Calls -> BOOLEAN]
    /\ \A c \in Calls :
          \/ res[c] = NoResult
          \/ res[c] \in {Err(w) : w \in {"missing_command", "spawn_failed", "timed_out"}}
          \/ res[c].kind = "ok" /\ res[c].text \in Seq(Pieces)

\* The result of a command that did not exit successfully ends in an exit
\* annotation whose code cannot be read as success, and the result of one
\* that did carries no annotation (lines 115-118).
ExitNoteFaithful ==
    \A c \in Calls :
        res[c].kind = "ok" =>
            LET t == res[c].text
            IN  IF Success(status[c]) THEN \A i \in DOMAIN t : t[i].piece # "exit"
                ELSE t # <<>> /\ t[Len(t)].piece = "exit" /\ t[Len(t)].code # 0

\* Every invocation that spawned its command returns, even when the
\* command never exits and whatever timeout it was given, 0 included: the
\* timer of line 93 bounds how long the agent loop waits for a tool (spec
\* section 3: execute must honor a timeout).
EveryCallReturns ==
    \A c \in Calls : pc[c] = "waiting" ~> pc[c] = "returned"

\* Spec section 5: when a tool's timeout elapses its process is reclaimed;
\* no child outlives the call that spawned it.
ProcessReclaimedOnReturn ==
    \A c \in Calls : pc[c] = "returned" => proc[c] # "running"

\* Spec section 3: execute honors a timeout when one is supplied, and bad
\* arguments are a tool-execution error.  A call given a timeout of s
\* seconds, in whatever JSON form, is never still waiting on its command
\* after s seconds; line 78 replaces a value as_u64 rejects by 60.
SuppliedTimeoutHonored ==
    \A c \in Calls :
        pc[c] = "waiting" /\ targ[c].given # "missing" => elapsed[c] <= targ[c].secs

\* Spec section 4.2: the diverted output (stderr) is set off by the
\* separator whenever it is non-empty.
StderrAlwaysMarked ==
    \A c \in Calls :
        res[c].kind = "ok" /\ err[c] => \E i \in DOMAIN res[c].text : res[c].text[i] = Separator

=============================================================================
