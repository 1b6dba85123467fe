----------------------------- MODULE PointerAgent -----------------------------
(***************************************************************************)
(* The agent of crates/pointer/src/agent.rs: what injects input on a       *)
(* machine for the clients that have connected to it, and gives the        *)
(* machine back to the person at it.                                       *)
(*                                                                         *)
(* A connection is a task of its own and runs one request at a time.  All  *)
(* of them share the machine, the override, the bucket and what is stuck,  *)
(* each behind a lock of its own, so that the steps of two performs may    *)
(* come in any order.  A client that goes away in the middle of a perform  *)
(* is not noticed before the perform is over.                              *)
(***************************************************************************)
EXTENDS Integers, Sequences, FiniteSets

CONSTANTS Conns,     \* the connections there may be
          Keys,      \* keys and buttons
          Batches,   \* what a client may ask to be performed
          MaxConns,  \* Limits, as is all that follows: max_connections
          MaxSteps,  \* max_steps
          Window,    \* suspend_ms
          Burst,     \* burst
          Rate,      \* performs_per_sec, or rather for every tick of the clock
          MaxTime    \* ticks, a bound of the model

\* What is neither a press nor a release holds nothing: moves, scrolls, texts and sleeps.
Step == [op : {"down", "up"}, key : Keys] \cup [op : {"other"}]

ASSUME BatchesAssumption == Batches \subseteq Seq(Step)
ASSUME LimitsAssumption == /\ MaxConns \in Nat /\ MaxSteps \in Nat /\ Window \in Nat
                           /\ Burst \in Nat /\ Rate \in Nat
ASSUME MaxTimeAssumption == MaxTime \in Nat
ASSUME ConnsAssumption == IsFiniteSet(Conns)

VARIABLES down,     \* what is down on the machine
          refuses,  \* what the OS will not press or release just now
          touched,  \* a person has touched the machine since the platform was last asked
          clock,
          at,       \* where a connection is; in a perform, its next step
          steps,    \* what is left of its batch
          began,    \* the time its perform goes by
          held,     \* what it has pressed and not released
          live,     \* the connections counted
          until,    \* the end of the suspension
          stuck,    \* what the OS refused to release
          tokens, last, \* the bucket
          admitted, \* history: performs the bucket has let through
          back      \* history: by how much the bucket's time was set back

machine == <<down, refuses, touched, clock>>
conns == <<at, steps, began, held>>
bucket == <<tokens, last, admitted, back>>
vars == <<machine, conns, live, until, stuck, bucket>>

Init == /\ down = {} /\ refuses = {} /\ touched = FALSE /\ clock = 0
        /\ at = [c \in Conns |-> "closed"]
        /\ steps = [c \in Conns |-> <<>>]
        /\ began = [c \in Conns |-> 0]
        /\ held = [c \in Conns |-> {}]
        /\ live = 0 /\ until = 0 /\ stuck = {}
        /\ tokens = Burst /\ last = 0
        /\ admitted = 0 /\ back = 0

Goes(c, where) == at' = [at EXCEPT ![c] = where]

\* Mutant of Release: a refusal is dropped.
ReleaseForgets(c) ==
  /\ down' = down \ (held[c] \ refuses)
  /\ stuck' = stuck
  /\ held' = [held EXCEPT ![c] = {}]
\* All that c holds is let go of; what the OS refuses is kept as stuck.
Release(c) ==
  /\ down' = down \ (held[c] \ refuses)
  /\ stuck' = stuck \cup (held[c] \cap refuses)
  /\ held' = [held EXCEPT ![c] = {}]

-----------------------------------------------------------------------------
(* The machine and the person at it.                                       *)

Tick == /\ clock < MaxTime
        /\ clock' = clock + 1
        /\ UNCHANGED <<down, refuses, touched, conns, live, until, stuck, bucket>>

Touch == /\ touched' = TRUE
         /\ UNCHANGED <<down, refuses, clock, conns, live, until, stuck, bucket>>

\* A window of more privilege comes to the front, or goes.
Elevation == /\ refuses' \in SUBSET Keys
             /\ UNCHANGED <<down, touched, clock, conns, live, until, stuck, bucket>>

-----------------------------------------------------------------------------
(* Connections.                                                            *)

\* A connection over the cap is counted for no longer than it takes to refuse it.
Connect(c) == /\ at[c] = "closed" /\ live < MaxConns
              /\ Goes(c, "new")
              /\ live' = live + 1
              /\ UNCHANGED <<machine, steps, began, held, until, stuck, bucket>>

\* The token and the protocol are right; until they are, nothing else is answered.
Hello(c) == /\ at[c] = "new"
            /\ Goes(c, "open")
            /\ UNCHANGED <<machine, steps, began, held, live, until, stuck, bucket>>

\* Mutant of Disconnect: the agent knows what is held, but not by whom.
DisconnectAll(c) == /\ at[c] \in {"new", "open"}
                    /\ down' = down \cap refuses
                    /\ stuck' = stuck \cup (down \cap refuses)
                    /\ held' = [held EXCEPT ![c] = {}]
                    /\ Goes(c, "closed")
                    /\ live' = live - 1
                    /\ UNCHANGED <<refuses, touched, clock, steps, began, until, bucket>>
Disconnect(c) == /\ at[c] \in {"new", "open"}
                 /\ Release(c)
                 /\ Goes(c, "closed")
                 /\ live' = live - 1
                 /\ UNCHANGED <<refuses, touched, clock, steps, began, until, bucket>>

-----------------------------------------------------------------------------
(* perform.                                                                *)

Ask(c) == /\ at[c] = "open"
          /\ \E b \in Batches : steps' = [steps EXCEPT ![c] = b]
          /\ began' = [began EXCEPT ![c] = clock]
          /\ Goes(c, "activity")
          /\ UNCHANGED <<machine, held, live, until, stuck, bucket>>

\* The platform says whether it was touched, and forgets it.
Activity(c) == /\ at[c] = "activity"
               /\ touched' = FALSE
               /\ Goes(c, IF touched THEN "suspend" ELSE "suspended")
               /\ UNCHANGED <<down, refuses, clock, steps, began, held, live, until, stuck, bucket>>

\* The override engages: for every connection, but what it releases is this one's.
Suspend(c) == /\ at[c] = "suspend"
              /\ until' = began[c] + Window
              /\ Release(c)
              /\ Goes(c, "suspended")
              /\ UNCHANGED <<refuses, touched, clock, steps, began, live, bucket>>

\* A perform is answered; its connection takes the next request.
Answer(c) == /\ steps' = [steps EXCEPT ![c] = <<>>]
             /\ Goes(c, "open")

Check(c) == /\ at[c] = "suspended"
            /\ IF began[c] < until \/ Len(steps[c]) > MaxSteps
               THEN Answer(c)
               ELSE Goes(c, "take") /\ UNCHANGED steps
            /\ UNCHANGED <<machine, began, held, live, until, stuck, bucket>>

Lesser(m, n) == IF m < n THEN m ELSE n
Past(m, n) == IF m > n THEN m - n ELSE 0
\* Mutant of Refilled: time that runs backwards refills as well.
RefilledAnyhow(t) == Lesser(tokens + (IF t > last THEN t - last ELSE last - t) * Rate, Burst)
Refilled(t) == Lesser(tokens + Past(t, last) * Rate, Burst)

\* Bucket::take, at the time the perform began, whatever other performs have taken since.
Take(c) ==
  /\ at[c] = "take"
  /\ last' = began[c]
  /\ back' = back + Past(last, began[c])
  /\ IF Refilled(began[c]) >= 1
     THEN /\ tokens' = Refilled(began[c]) - 1
          /\ admitted' = admitted + 1
          /\ Goes(c, "retry") /\ UNCHANGED steps
     ELSE /\ tokens' = Refilled(began[c]) /\ UNCHANGED admitted
          /\ Answer(c)
  /\ UNCHANGED <<machine, began, held, live, until, stuck>>

\* retry_stuck: whoever pressed it, and whoever may have pressed it again.
Retry(c) == /\ at[c] = "retry"
            /\ down' = down \ (stuck \ refuses)
            /\ stuck' = stuck \cap refuses
            /\ Goes(c, "steps")
            /\ UNCHANGED <<refuses, touched, clock, steps, began, held, live, until, bucket>>

\* What a step does to the machine, and to what c is known to hold.
Effect(c, step) ==
  CASE step.op = "down" -> /\ down' = down \cup {step.key}
                           /\ held' = [held EXCEPT ![c] = @ \cup {step.key}]
    [] step.op = "up" -> /\ down' = down \ {step.key}
                         /\ held' = [held EXCEPT ![c] = @ \ {step.key}]
    [] OTHER -> UNCHANGED <<down, held>>

Apply(c) == /\ at[c] = "steps" /\ steps[c] # <<>>
            /\ Head(steps[c]).op # "other" => Head(steps[c]).key \notin refuses
            /\ Effect(c, Head(steps[c]))
            /\ steps' = [steps EXCEPT ![c] = Tail(@)]
            /\ UNCHANGED <<refuses, touched, clock, at, began, live, until, stuck, bucket>>

\* A step is refused: what the batch has pressed has no second half coming.
Fail(c) == /\ at[c] = "steps" /\ steps[c] # <<>>
           /\ Head(steps[c]).op # "other" => Head(steps[c]).key \in refuses
           /\ Release(c)
           /\ Answer(c)
           /\ UNCHANGED <<refuses, touched, clock, began, live, until, bucket>>

Performed(c) == /\ at[c] = "steps" /\ steps[c] = <<>>
                /\ Answer(c)
                /\ UNCHANGED <<machine, began, held, live, until, stuck, bucket>>

Perform(c) == \/ Ask(c) \/ Activity(c) \/ Suspend(c) \/ Check(c) \/ Take(c) \/ Retry(c)
              \/ Apply(c) \/ Fail(c) \/ Performed(c)

Next == \/ Tick \/ Touch \/ Elevation
        \/ \E c \in Conns : Connect(c) \/ Hello(c) \/ Disconnect(c) \/ Perform(c)

Spec == Init /\ [][Next]_vars

-----------------------------------------------------------------------------
(* Properties.                                                             *)

Places == {"closed", "new", "open", "activity", "suspend", "suspended", "take", "retry",
           "steps"}

(* The types of the state; the connections are counted right, and one that *)
(* is closed holds nothing.                                                *)
TypeOK == /\ down \subseteq Keys /\ refuses \subseteq Keys
          /\ touched \in BOOLEAN /\ clock \in 0 .. MaxTime
          /\ at \in [Conns -> Places]
          /\ steps \in [Conns -> Seq(Step)]
          /\ began \in [Conns -> 0 .. MaxTime]
          /\ held \in [Conns -> SUBSET Keys]
          /\ live = Cardinality({c \in Conns : at[c] # "closed"}) /\ live <= MaxConns
          /\ \A c \in Conns : at[c] = "closed" => held[c] = {}
          /\ until \in Nat /\ stuck \subseteq Keys
          /\ tokens \in 0 .. Burst /\ last \in 0 .. MaxTime
          /\ admitted \in Nat /\ back \in Nat

(* Whatever the agent has pressed and is still down, a connection that is  *)
(* still there holds or the agent means to release: nothing is forgotten   *)
(* by a refusal, a failed batch, an override or a disconnect.              *)
NothingLeftDown == down \subseteq stuck \cup UNION {held[c] : c \in Conns}

(* The ceiling on performs is the machine's: however they are spread over  *)
(* connections, no more go through than the burst and the rate allow.  A   *)
(* perform that takes after a later one sets the bucket's time back, and   *)
(* the time between is counted twice.                                      *)
RateHeld == admitted <= Burst + Rate * (clock + back)

\* The step d is at lets go of k.
Releasing(d, k) == steps[d] # <<>> /\ Head(steps[d]) = [op |-> "up", key |-> k]

(* What is held is held by a connection, and nobody else's business:      *)
(* another that leaves, fails or goes on does not let go of it, unless it  *)
(* holds it too or was asked to release it.  Two things reach across       *)
(* connections: a key that was stuck is retried, whoever has pressed it    *)
(* since; and the override, when it engages, may let go of anything (in    *)
(* the code, of what the connection that noticed it holds).                *)
HeldStaysDown ==
  [][\A c \in Conns : \A k \in held[c] \cap held'[c] : k \in down /\ k \notin down' =>
       \E d \in Conns : \/ Release(d) /\ k \in held[d]
                        \/ Apply(d) /\ Releasing(d, k)
                        \/ Retry(d) /\ k \in stuck
                        \/ Suspend(d)]_vars
=============================================================================
