------------------------------- MODULE Client -------------------------------
(***************************************************************************)
(* The benchmark client (src/src/client.cpp) and the servers it talks to.  *)
(* A client keeps a window of MaxInFlight requests ("maxcap" mode) or      *)
(* sends one per tick ("fixed" mode), follows the leader that a server     *)
(* names in a failed response, and starts over after a silence of three    *)
(* seconds.                                                                *)
(*                                                                         *)
(* Requests are alike: which one a response answers only matters for the   *)
(* latency the client logs.  So the network holds numbers of datagrams,    *)
(* at most MaxNet of a kind; what does not fit is lost, as UDP may do.     *)
(*                                                                         *)
(* A callback runs as a program todo of steps: "send" is one               *)
(* send_request(), "fill" the loop that sends until the window is full,    *)
(* "settle" the end of handle_response() that takes a request off the      *)
(* window.  No other callback runs before the program ends.                *)
(***************************************************************************)
EXTENDS Integers, Sequences, FiniteSets, FiniteSetsExt

CONSTANTS Server,       \* the replicas
          None,         \* an empty leader address
          MaxCap,       \* TRUE: MAX_IN_FLIGHT mode; FALSE: FIXED_RATE mode
          MaxInFlight,  \* max_in_flight_
          SendFails,    \* whether sendto() may fail
          MaxNet,       \* bound on datagrams of a kind in the network
          MaxChanges    \* bound on what happens to the leadership

VARIABLES server_ip,   \* where the client sends its requests
          in_flight,   \* in_flight_
          todo,        \* what is left of the running callback
          req,         \* req[s]: requests on their way to s
          pending,     \* requests in the leader's log, not yet committed
          ok,          \* successful responses on their way to the client
          redirect,    \* redirect[l]: failed responses that name l
          leader,      \* the replica that leads, or None
          told,        \* current_leader_ip of each replica
          changes,     \* how often the leadership was disturbed
          disturbed    \* whether the client met anything but successful responses

client == <<server_ip, in_flight, todo>>
cluster == <<leader, told, changes>>
vars == <<client, req, pending, ok, redirect, cluster, disturbed>>

Named == Server \union {None}

(* One more datagram, or the loss of the one that does not fit.            *)
More(n) == IF n < MaxNet THEN n + 1 ELSE n

Outstanding ==
    MapThenSumSet(LAMBDA s : req[s], Server) + pending + ok
        + MapThenSumSet(LAMBDA l : redirect[l], Named)

Sends(n) == [i \in 1 .. n |-> "send"]

(* run(): one request, and in maxcap mode the rest of the first window.    *)
Init ==
    /\ server_ip \in Server
    /\ in_flight = 0
    /\ todo = IF MaxCap THEN Sends(MaxInFlight) ELSE Sends(1)
    /\ req = [s \in Server |-> 0] /\ pending = 0 /\ ok = 0
    /\ redirect = [l \in Named |-> 0]
    /\ leader \in Server /\ told = [s \in Server |-> leader]
    /\ changes = 0 /\ disturbed = FALSE

-----------------------------------------------------------------------------
(* What the client does.                                                   *)

Idle == todo = << >>

(* A step that sends: "send" is over with it, "fill" goes on.              *)
Sending == ~Idle /\ (Head(todo) = "send" \/ (Head(todo) = "fill" /\ in_flight < MaxInFlight))
AfterSend == IF Head(todo) = "send" THEN Tail(todo) ELSE todo

(* send_request() when sendto() succeeds ...                               *)
SendRequest ==
    /\ Sending
    /\ todo' = AfterSend
    /\ in_flight' = IF MaxCap THEN in_flight + 1 ELSE in_flight
    /\ req' = [req EXCEPT ![server_ip] = More(@)]
    /\ disturbed' = (disturbed \/ req[server_ip] = MaxNet)
    /\ UNCHANGED <<server_ip, pending, ok, redirect, cluster>>

(* ... and when it fails: neither the window nor the timer changes.        *)
SendRequestFails ==
    /\ SendFails
    /\ Sending
    /\ todo' = AfterSend
    /\ disturbed' = TRUE
    /\ UNCHANGED <<server_ip, in_flight, req, pending, ok, redirect, cluster>>

Filled ==
    /\ ~Idle /\ Head(todo) = "fill" /\ in_flight >= MaxInFlight
    /\ todo' = Tail(todo)
    /\ UNCHANGED <<server_ip, in_flight, req, pending, ok, redirect, cluster, disturbed>>

\* Mutant: the window is not reduced.
Decremented_Not(n) == n

\* Mutant: the counter may pass zero.
Decremented_Always(n) == n - 1

Decremented(n) == IF n > 0 THEN n - 1 ELSE n

Settle ==
    /\ ~Idle /\ Head(todo) = "settle"
    /\ todo' = Tail(todo)
    /\ in_flight' = Decremented(in_flight)
    /\ UNCHANGED <<server_ip, req, pending, ok, redirect, cluster, disturbed>>

(* What every handled response ends with.                                  *)
Settling == IF MaxCap THEN <<"settle", "fill">> ELSE << >>

(* handle_response() of a successful response.                             *)
ReceiveOk ==
    /\ Idle /\ ok > 0
    /\ ok' = ok - 1
    /\ todo' = Settling
    /\ UNCHANGED <<server_ip, in_flight, req, pending, redirect, cluster, disturbed>>

Reset == IF MaxCap THEN 0 ELSE in_flight

(* handle_response() of a failed response that names nobody.               *)
ReceiveEmpty ==
    /\ Idle /\ redirect[None] > 0
    /\ redirect' = [redirect EXCEPT ![None] = @ - 1]
    /\ in_flight' = Reset
    /\ todo' = Sends(1)
    /\ disturbed' = TRUE
    /\ UNCHANGED <<server_ip, req, pending, ok, cluster>>

(* ... that names the server the client uses already: nothing is settled.  *)
ReceiveSame ==
    /\ Idle /\ redirect[server_ip] > 0
    /\ redirect' = [redirect EXCEPT ![server_ip] = @ - 1]
    /\ disturbed' = TRUE
    /\ UNCHANGED <<client, req, pending, ok, cluster>>

\* Mutant: the named leader is not adopted.
ReceiveRedirect_Stays(l) ==
    /\ Idle /\ l # server_ip /\ redirect[l] > 0
    /\ redirect' = [redirect EXCEPT ![l] = @ - 1]
    /\ in_flight' = Reset
    /\ todo' = (IF MaxCap THEN <<"send", "fill">> ELSE << >>) \o Settling
    /\ disturbed' = TRUE
    /\ UNCHANGED <<server_ip, req, pending, ok, cluster>>

(* ... that names another one: a window of requests goes there.            *)
ReceiveRedirect(l) ==
    /\ Idle /\ l # server_ip /\ redirect[l] > 0
    /\ redirect' = [redirect EXCEPT ![l] = @ - 1]
    /\ server_ip' = l
    /\ in_flight' = Reset
    /\ todo' = (IF MaxCap THEN <<"send", "fill">> ELSE << >>) \o Settling
    /\ disturbed' = TRUE
    /\ UNCHANGED <<req, pending, ok, cluster>>

\* Mutant: the timeout sends nothing and waits once more.
Timeout_Waits ==
    /\ MaxCap /\ Idle /\ in_flight > 0
    /\ disturbed' = TRUE
    /\ UNCHANGED <<client, req, pending, ok, redirect, cluster>>

(* timeout_cb(): only a window with something in it is sent again.         *)
Timeout ==
    /\ MaxCap /\ Idle /\ in_flight > 0
    /\ in_flight' = 0
    /\ todo' = Sends(MaxInFlight)
    /\ disturbed' = TRUE
    /\ UNCHANGED <<server_ip, req, pending, ok, redirect, cluster>>

(* send_timer_cb(): in fixed mode only; maxcap mode never starts the timer. *)
SendTimer ==
    /\ ~MaxCap /\ Idle
    /\ todo' = Sends(1)
    /\ UNCHANGED <<server_ip, in_flight, req, pending, ok, redirect, cluster, disturbed>>

ClientStep == SendRequest \/ SendRequestFails \/ Filled \/ Settle

-----------------------------------------------------------------------------
(* What the servers and the network do.                                    *)

(* handle_client_request(): the leader appends, anyone else answers.       *)
Serve(s) ==
    /\ req[s] > 0
    /\ req' = [req EXCEPT ![s] = @ - 1]
    /\ IF s = leader
         THEN pending' = More(pending) /\ UNCHANGED redirect
         ELSE redirect' = [redirect EXCEPT ![told[s]] = More(@)] /\ UNCHANGED pending
    /\ disturbed' = (disturbed \/ <<pending, redirect>>' = <<pending, redirect>>)
    /\ UNCHANGED <<client, ok, cluster>>

(* updated_commit_index(): an entry is committed and acknowledged.         *)
Commit ==
    /\ leader # None /\ pending > 0
    /\ pending' = pending - 1
    /\ ok' = More(ok)
    /\ disturbed' = (disturbed \/ ok' = ok)
    /\ UNCHANGED <<client, req, redirect, cluster>>

(* The leadership ends or moves; what was not committed may be lost, or    *)
(* committed by the new leader.  A replica that steps down for a higher    *)
(* term in a response goes on naming itself, and one that stands for       *)
(* election names nobody.                                                  *)
Depose ==
    /\ changes < MaxChanges /\ leader # None
    /\ leader' = None /\ changes' = changes + 1
    /\ \E l \in {leader, None} : told' = [told EXCEPT ![leader] = l]
    /\ disturbed' = TRUE
    /\ UNCHANGED <<client, req, pending, ok, redirect>>

Elect(s) ==
    /\ leader = None
    /\ leader' = s
    /\ told' = [told EXCEPT ![s] = s]
    /\ pending' \in 0 .. pending
    /\ UNCHANGED <<client, req, ok, redirect, changes, disturbed>>

(* A replica hears the leader, or stands for election itself.              *)
Learn(s) ==
    /\ leader # None /\ told[s] # leader
    /\ told' = [told EXCEPT ![s] = leader]
    /\ UNCHANGED <<client, req, pending, ok, redirect, leader, changes, disturbed>>

Forget(s) ==
    /\ changes < MaxChanges /\ s # leader /\ told[s] # None
    /\ told' = [told EXCEPT ![s] = None] /\ changes' = changes + 1
    /\ UNCHANGED <<client, req, pending, ok, redirect, leader, disturbed>>

(* A datagram is lost.  A response that is lost while a callback runs is   *)
(* lost after it: the client cannot tell.                                  *)
Lose ==
    /\ Idle
    /\ \/ /\ \E s \in Server : req[s] > 0 /\ req' = [req EXCEPT ![s] = @ - 1]
          /\ UNCHANGED <<ok, redirect>>
       \/ ok > 0 /\ ok' = ok - 1 /\ UNCHANGED <<req, redirect>>
       \/ /\ \E l \in Named : redirect[l] > 0 /\ redirect' = [redirect EXCEPT ![l] = @ - 1]
          /\ UNCHANGED <<req, ok>>
    /\ disturbed' = TRUE
    /\ UNCHANGED <<client, pending, cluster>>

Receive ==
    \/ ReceiveOk \/ ReceiveEmpty \/ ReceiveSame
    \/ \E l \in Server : ReceiveRedirect(l)

Next ==
    \/ ClientStep \/ Receive
    \/ Timeout \/ SendTimer
    \/ \E s \in Server : Serve(s) \/ Elect(s) \/ Learn(s) \/ Forget(s)
    \/ Commit \/ Depose \/ Lose

Spec == Init /\ [][Next]_vars

(* The event loop runs its callbacks to the end and its timers fire; a     *)
(* call to sendto() that is made again and again succeeds some time, and   *)
(* so does a datagram that is sent again and again.  Replicas hear from    *)
(* their leader.                                                           *)
Fairness ==
    /\ WF_vars(ClientStep) /\ SF_vars(SendRequest)
    /\ WF_vars(Timeout) /\ WF_vars(SendTimer)
    /\ SF_vars(Receive)
    /\ SF_vars(\E s \in Server : Serve(s))
    /\ \A s \in Server : WF_vars(Learn(s))

FairSpec == Spec /\ Fairness

-----------------------------------------------------------------------------
(* The window's counter stays between 0 and its bound, whatever late,      *)
(* failed or redirected responses do to it (in_flight_ in client.cpp).     *)
ClientTypeOK ==
    /\ server_ip \in Server
    /\ in_flight \in 0 .. MaxInFlight
    /\ Len(todo) <= MaxInFlight + 3
    /\ req \in [Server -> 0 .. MaxNet]
    /\ {pending, ok} \subseteq 0 .. MaxNet
    /\ redirect \in [Named -> 0 .. MaxNet]
    /\ leader \in Named /\ told \in [Server -> Named]

(* As long as the client has met only successful responses, and nothing    *)
(* was lost, its counter is the number of requests that really are on      *)
(* their way, in the leader's log or being answered (the increment in      *)
(* send_request() and the decrement in handle_response() pair up).         *)
CountIsExact == MaxCap /\ Idle /\ ~disturbed => in_flight = Outstanding

(* The client never falls silent: again and again one of its requests is   *)
(* outstanding (timeout_cb() starts over after a window was lost).         *)
RequestsFlow == []<>(Outstanding > 0)

(* Once the cluster has a leader for good, the client sends to it, even    *)
(* if servers name themselves, nobody or an old leader for a while, and    *)
(* late responses send the client back (handle_response()).                *)
FollowsLeader == <>[](leader # None) => <>[](server_ip = leader)
=============================================================================
