------------------------------- MODULE Replay -------------------------------
(***************************************************************************)
(* Recording and replay of an actor.  First the actor lives: every call,   *)
(* host function and result becomes an event of its chain, through         *)
(* execute_call_pack and the RecordingInterceptor.  Then a second actor is *)
(* set up with that chain: the ReplayHandler makes the calls again, the    *)
(* ReplayRecordingInterceptor answers host functions from the chain, and a *)
(* verification task compares the chain that comes out, event by event.    *)
(*                                                                         *)
(* The hash of an event covers its parent's hash, so two events with equal *)
(* hashes are the last of equal chains: hashes are compared as prefixes.   *)
(***************************************************************************)
EXTENDS Naturals, Sequences, FiniteSets, SequencesExt

CONSTANTS
    Exports,     \* functions that are called
    Hosts,       \* host functions
    Outputs,     \* what host functions return
    None,        \* nothing
    Guests,      \* programs
    Original,    \* the one that is recorded
    Program,     \* Program[g][f][outs]: its next step in f after these outputs
    EventCap,    \* capacity of the handler's event channel (1024)
    MaxCalls,    \* calls that are recorded
    MaxOutside   \* calls that reach the actor in replay from elsewhere

Decision == [do : {"host"}, g : Hosts] \cup [do : {"return"}, v : Outputs] \cup [do : {"trap"}]

\* A call in work.
Working == [f : Exports \cup {"shutdown"}, outs : Seq(Outputs), by : {"replay", "other"}]

\* The name under which stop_actor records itself is an export of no guest.  A guest
\* is a program: it has a next step after whatever a host function returned to it.
ASSUME ReplayAssumption ==
    /\ Original \in Guests
    /\ "shutdown" \notin Exports /\ None \notin Working
    /\ EventCap \in Nat \ {0}
    /\ MaxCalls \in Nat /\ MaxOutside \in Nat
    /\ \A g \in Guests, f \in Exports :
         /\ <<>> \in DOMAIN Program[g][f]
         /\ \A outs \in DOMAIN Program[g][f] :
              /\ outs \in Seq(Outputs) /\ Program[g][f][outs] \in Decision
              /\ Program[g][f][outs].do = "host" =>
                   \A out \in Outputs : Append(outs, out) \in DOMAIN Program[g][f]

VARIABLES
    phase,      \* "record" or "replay"
    guest,      \* the program that runs
    chain,      \* its chain
    expected,   \* the recorded chain
    cur,        \* the call in work: function, outputs so far, who waits for it
    calls,      \* number of calls recorded
    outside,    \* number of calls from elsewhere
    position,   \* the interceptor's position in expected
    real,       \* host functions that were executed in replay
    index,      \* where in expected the handler's next call is looked for
    hpc,        \* the handler
    verified,   \* verified_position
    vpc,        \* the verification task: "run" or "done"
    divergence  \* has it sent its message?

recVars == <<calls, expected>>
hVars   == <<index, hpc>>
vVars   == <<verified, vpc, divergence>>
replayVars == <<phase, guest, chain, cur, recVars, outside, position, real, hVars, vVars>>

-----------------------------------------------------------------------------
\* The least of a set of indices.
First(found) == CHOOSE x \in found : \A y \in found : x <= y

\* Events: WasmCall, HostFunction, WasmResult, WasmError, and the WasmCall that
\* stop_actor adds under a type of its own.
Event ==
    [k : {"call", "error"}, f : Exports \cup {"shutdown"}]
        \cup [k : {"result"}, f : Exports, v : Outputs]
        \cup [k : {"host"}, g : Hosts, out : Outputs]
        \cup [k : {"stop"}, f : {"shutdown"}]

ReplayTypeOK ==
    /\ phase \in {"record", "replay"} /\ guest \in Guests
    /\ chain \in Seq(Event) /\ expected \in Seq(Event)
    /\ cur \in Working \cup {None}
    /\ calls \in 0..MaxCalls /\ outside \in 0..MaxOutside
    /\ position \in 1..(Len(expected) + 1) /\ real \in Nat
    /\ index \in 1..(Len(expected) + 1)
    /\ hpc \in {"none", "next", "send", "call", "verify", "ok", "failed", "left", "stopped"}
    /\ verified \in 0..Len(expected) /\ verified <= Len(chain)
    /\ vpc \in {"run", "done"} /\ divergence \in BOOLEAN

ReplayInit ==
    /\ phase = "record" /\ guest = Original
    /\ chain = <<>> /\ expected = <<>> /\ cur = None
    /\ calls = 0 /\ outside = 0
    /\ position = 1 /\ real = 0
    /\ index = 1 /\ hpc = "none"
    /\ verified = 0 /\ vpc = "done" /\ divergence = FALSE

-----------------------------------------------------------------------------
(* The actor, in both phases.                                              *)

\* Room in the channel of the handler; a receiver that is gone takes nothing.
Room == vpc = "run" => Len(chain) - verified < EventCap

Records(e) == Room /\ chain' = Append(chain, e)

Starts(f, by) ==
    /\ cur = None
    /\ Records([k |-> "call", f |-> f])
    /\ cur' = [f |-> f, outs |-> <<>>, by |-> by]

\* What the guest does next.  A function it does not export is an error.
Step == IF cur.f \in Exports THEN Program[guest][cur.f][cur.outs] ELSE [do |-> "trap"]

\* The replay handler's call has an outcome; others go on by themselves.
Outcome(s) ==
    hpc' = IF cur.by = "replay" /\ hpc = "call" THEN s ELSE hpc

GuestReturns ==
    /\ cur # None /\ Step.do = "return"
    /\ Records([k |-> "result", f |-> cur.f, v |-> Step.v])
    /\ cur' = None
    /\ Outcome("next")
    /\ UNCHANGED <<phase, guest, recVars, outside, position, real, index, vVars>>

GuestFails ==
    /\ cur # None /\ Step.do = "trap"
    /\ Records([k |-> "error", f |-> cur.f])
    /\ cur' = None
    /\ Outcome("failed")
    /\ UNCHANGED <<phase, guest, recVars, outside, position, real, index, vVars>>

\* A host function has returned: its event, and the guest goes on.
HostReturns(out) ==
    /\ Records([k |-> "host", g |-> Step.g, out |-> out])
    /\ cur' = [cur EXCEPT !.outs = Append(@, out)]

-----------------------------------------------------------------------------
(* Recording.                                                              *)

\* An error pauses the actor, and no more calls are made.
Trapped(c) == \E i \in DOMAIN c : c[i].k = "error"
Stopped(c) == \E i \in DOMAIN c : c[i].k = "stop"

RecordCall(f) ==
    /\ phase = "record" /\ calls < MaxCalls /\ f \in Exports
    /\ ~Trapped(chain) /\ ~Stopped(chain)
    /\ Starts(f, "other")
    /\ calls' = calls + 1
    /\ UNCHANGED <<phase, guest, expected, outside, position, real, hVars, vVars>>

RecordHost(out) ==
    /\ phase = "record" /\ cur # None /\ Step.do = "host"
    /\ HostReturns(out)
    /\ UNCHANGED <<phase, guest, recVars, outside, position, real, hVars, vVars>>

\* stop_actor, at any moment of a call.
RecordStop ==
    /\ phase = "record" /\ ~Stopped(chain)
    /\ Records([k |-> "stop", f |-> "shutdown"])
    /\ UNCHANGED <<phase, guest, cur, recVars, outside, position, real, hVars, vVars>>

\* The actor has gone, perhaps in the middle of a call, and its chain is given to
\* another: its handlers are set up, the verification task among them.  The
\* second actor starts from the same state as the first: both have the default
\* one, which is what ResumeActor passes whatever initial state the manifest has.
SetupReplay(g) ==
    /\ phase = "record" /\ g \in Guests
    /\ phase' = "replay"
    /\ guest' = g
    /\ expected' = chain /\ chain' = <<>> /\ cur' = None
    /\ hpc' = "next" /\ vpc' = "run"
    /\ UNCHANGED <<calls, outside, position, real, index, verified, divergence>>

-----------------------------------------------------------------------------
(* ReplayRecordingInterceptor.                                             *)

MatchesAgain(g) ==   \* Mutant of Matches: looks from the beginning each time
    {i \in 1..Len(expected) : expected[i].k = "host" /\ expected[i].g = g}

\* find_next_host_call: the next recorded call of that function; everything up to
\* it, or all, is skipped.
Matches(g) == {i \in position..Len(expected) : expected[i].k = "host" /\ expected[i].g = g}

ReplayHost ==
    LET found == Matches(Step.g)
        i == First(found)
    IN
    /\ phase = "replay" /\ cur # None /\ Step.do = "host" /\ found # {}
    /\ position' = i + 1
    /\ HostReturns(expected[i].out)
    /\ UNCHANGED <<phase, guest, recVars, outside, real, hVars, vVars>>

\* Nothing is found: the host function is executed.
RealHost(out) ==
    /\ phase = "replay" /\ cur # None /\ Step.do = "host" /\ Matches(Step.g) = {}
    /\ position' = Len(expected) + 1
    /\ real' = real + 1
    /\ HostReturns(out)
    /\ UNCHANGED <<phase, guest, recVars, outside, hVars, vVars>>

\* A message, a timer or the runtime's own init: not the handler's doing.
OutsideCall(f) ==
    /\ phase = "replay" /\ outside < MaxOutside /\ f \in Exports
    /\ ~Trapped(chain)
    /\ Starts(f, "other")
    /\ outside' = outside + 1
    /\ UNCHANGED <<phase, guest, recVars, position, real, hVars, vVars>>

-----------------------------------------------------------------------------
(* ReplayHandler.                                                          *)

\* calls_to_replay, by their indices: whatever decodes as a WasmCall, from index on.
calls_to_replay == {i \in index..Len(expected) : expected[i].k \in {"call", "stop"}}

HandlerChecks ==
    /\ hpc = "next" /\ calls_to_replay # {}
    /\ hpc' = IF divergence THEN "failed" ELSE "send"
    /\ UNCHANGED <<phase, guest, chain, cur, recVars, outside, position, real, index, vVars>>

\* The operation is taken by the actor's loop, though the handler may have left; a
\* paused actor refuses it.
HandlerCalls ==
    LET i == First(calls_to_replay) IN
    /\ hpc \in {"send", "left"} /\ ~Trapped(chain)
    /\ Starts(expected[i].f, "replay")
    /\ index' = i + 1
    /\ hpc' = IF hpc = "send" THEN "call" ELSE "stopped"
    /\ UNCHANGED <<phase, guest, recVars, outside, position, real, vVars>>

HandlerRefused ==
    /\ hpc \in {"send", "left"} /\ Trapped(chain) /\ cur = None
    /\ hpc' = IF hpc = "send" THEN "failed" ELSE "stopped"
    /\ UNCHANGED <<phase, guest, chain, cur, recVars, outside, position, real, index, vVars>>

\* The select sees the shutdown signal while a call is made, and only then; an
\* operation that is queued, or a call that runs, goes on without the handler.
HandlerStops ==
    /\ hpc \in {"send", "call"}
    /\ hpc' = IF hpc = "send" THEN "left" ELSE "stopped"
    /\ UNCHANGED <<phase, guest, chain, cur, recVars, outside, position, real, index, vVars>>

HandlerWaits ==
    /\ hpc = "next" /\ calls_to_replay = {}
    /\ hpc' = "verify"
    /\ UNCHANGED <<phase, guest, chain, cur, recVars, outside, position, real, index, vVars>>

HandlerEndsUncounted ==   \* Mutant of HandlerEnds: looks only for a message
    /\ hpc = "verify"
    /\ hpc' = IF divergence THEN "failed" ELSE "ok"
    /\ UNCHANGED <<phase, guest, chain, cur, recVars, outside, position, real, index, vVars>>

HandlerEndsIndex ==   \* Mutant of HandlerEnds: takes the number verified for an index
    /\ hpc = "verify" /\ vpc = "done"
    /\ hpc' = IF divergence \/ verified + 1 # Len(expected) THEN "failed" ELSE "ok"
    /\ UNCHANGED <<phase, guest, chain, cur, recVars, outside, position, real, index, vVars>>

HandlerEnds ==
    /\ hpc = "verify" /\ vpc = "done"
    /\ hpc' = IF divergence \/ verified # Len(expected) THEN "failed" ELSE "ok"
    /\ UNCHANGED <<phase, guest, chain, cur, recVars, outside, position, real, index, vVars>>

-----------------------------------------------------------------------------
(* The verification task.                                                  *)

SameUpTo(n) == SubSeq(chain, 1, n) = SubSeq(expected, 1, n)

Verify ==
    /\ vpc = "run" /\ verified < Len(chain)
    /\ IF verified >= Len(expected) \/ ~SameUpTo(verified + 1)
       THEN /\ divergence' = TRUE /\ vpc' = "done"
            /\ verified' = verified
       ELSE /\ verified' = verified + 1
            /\ vpc' = IF verified + 1 >= Len(expected) THEN "done" ELSE vpc
            /\ divergence' = divergence
    /\ UNCHANGED <<phase, guest, chain, cur, recVars, outside, position, real, hVars>>

-----------------------------------------------------------------------------
ActorStep ==
    \/ GuestReturns \/ GuestFails \/ ReplayHost \/ HandlerCalls
    \/ \E out \in Outputs : RecordHost(out) \/ RealHost(out)

HandlerStep == HandlerChecks \/ HandlerRefused \/ HandlerWaits \/ HandlerEnds

ReplayNext ==
    \/ ActorStep \/ HandlerStep \/ Verify \/ HandlerStops
    \/ \E f \in Exports : RecordCall(f) \/ OutsideCall(f)
    \/ RecordStop \/ \E g \in Guests : SetupReplay(g)

ReplaySpec == ReplayInit /\ [][ReplayNext]_replayVars

\* The three tasks of the replay run; nobody has to make calls, end the recording
\* or signal a shutdown.
ReplayFairness == WF_replayVars(ActorStep) /\ WF_replayVars(HandlerStep) /\ WF_replayVars(Verify)

ReplayLiveSpec == ReplaySpec /\ ReplayFairness

-----------------------------------------------------------------------------
(* Properties.                                                             *)

\* A replay that reports success has produced the recorded chain, whatever guest
\* ran and whatever calls came in between; the position stays inside the recording
\* (ReplayTypeOK).
OkMeansSame == ReplayTypeOK /\ (hpc = "ok" => IsPrefix(expected, chain))

\* The same guest alone, on the chain of an actor that nobody stopped.
Undisturbed == phase = "replay" /\ guest = Original /\ outside = 0 /\ ~Stopped(expected)

\* It repeats the recorded chain, from the same initial state.  It goes beyond it only where the recording was
\* cut off in the middle of a call, and only there are host functions executed:
\* the interceptor's position never runs ahead of the chain nor falls behind.
SameGuestSame ==
    Undisturbed =>
        /\ IsPrefix(chain, expected) \/ IsPrefix(expected, chain)
        /\ real > 0 => Len(chain) > Len(expected)
        /\ ~divergence

\* A replay ends, with or without a divergence: the events that the handler waits
\* for at the end do come.  (For an empty chain it waits for ever.)
ReplayEnds ==
    (phase = "replay" /\ expected # <<>>) ~> hpc \in {"ok", "failed", "left", "stopped"}

\* Undisturbed, and with no call that failed, it reports success.
SameGuestVerifies ==
    (Undisturbed /\ expected # <<>> /\ ~Trapped(expected))
        ~> (hpc \in {"ok", "left", "stopped"} \/ ~Undisturbed \/ Trapped(chain))

\* Every replay comes to a verdict, and that of the same guest is success.
ReplaySettles == ReplayEnds /\ SameGuestVerifies

=============================================================================
