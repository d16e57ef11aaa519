----------------------------- MODULE EventLoop -----------------------------
(***************************************************************************)
(* The engine of the library: the loop aisl_run_cycle, the listening       *)
(* servers it opens and accepts from, the client spool it walks, and the   *)
(* teardown aisl_free (src/src/instance.c, server.c, list.c and the life   *)
(* cycle part of client.c).                                                *)
(*                                                                         *)
(* The library has one thread.  What interleaves is the loop, the          *)
(* application's callbacks, which run inside it and may close any client,  *)
(* the application between two cycles, the peers and the clock.  What a    *)
(* client does inside aisl_client_touch is reduced here to its outcome     *)
(* (Client models it in full): it stays online, having been heard or not,  *)
(* or it is offline afterwards.                                            *)
(***************************************************************************)
EXTENDS Integers, Sequences

CONSTANTS
    Clients,      \* the connections that peers may open, one object each
    NumServers,   \* length of cfg->srv
    Secure,       \* the servers configured with cfg_srv->secure
    SpoolSize,    \* cfg->client_spool_size
    AcceptLimit,  \* cfg->client_accept_limit: stored, read by no action
    Timeout,      \* cfg->client_silence_timeout, in clock ticks
    OutOfMemory   \* whether malloc, calloc and realloc may fail

Servers == 1 .. NumServers

ASSUME ConfigAssumption ==
    /\ NumServers \in Nat
    /\ Secure \subseteq Servers
    /\ SpoolSize \in Nat
    /\ AcceptLimit \in Nat
    /\ Timeout \in Nat
    /\ OutOfMemory \in BOOLEAN

VARIABLES
    srv,       \* state of each server's socket
    client,    \* life of each client object
    fd,        \* whether the client's descriptor is open (client->fd # -1)
    silence,   \* ticks since client->timestamp, counted up to Timeout
    events,    \* the client events the application was given, per client
    spool,     \* instance->client_spool: data[0 .. count-1]
    capacity,  \* client_spool.size
    pc,        \* where the thread is
    pos,       \* next index of the server loop, the client loop or list_release
    start,     \* history: the spool when this cycle's client loop began
    touched    \* history: the clients touched by this cycle's client loop

vars == <<srv, client, fd, silence, events, spool, capacity, pc, pos, start, touched>>

ServerStates == {"closed", "listening", "freed"}
ClientStates == {"absent", "live", "freed", "leaked"}
ClientEvents == {"CLIENT_CONNECT", "CLIENT_DISCONNECT"}
Points       == {"app", "servers", "clients", "down", "gone", "crashed"}

(* The points at which the instance is whole.                              *)
Serving == {"app", "servers", "clients"}

Online == {c \in Clients : client[c] = "live" /\ fd[c]}

Init ==
    /\ srv = [s \in Servers |-> "closed"]
    /\ client = [c \in Clients |-> "absent"]
    /\ fd = [c \in Clients |-> FALSE]
    /\ silence = [c \in Clients |-> 0]
    /\ events = [c \in Clients |-> <<>>]
    /\ spool = <<>>
    /\ capacity = SpoolSize
    /\ pc = "app"
    /\ pos = 1
    /\ start = <<>>
    /\ touched = {}

-----------------------------------------------------------------------------
(* Helpers.                                                                *)

(* Mutant of list_remove_index: the removed entry stays and its neighbour  *)
(* goes.                                                                   *)
list_remove_index_after(s, i) ==
    [k \in 1 .. Len(s) - 1 |-> IF k <= i THEN s[k] ELSE s[k + 1]]

(* The entries after index i are shifted down by one.                      *)
list_remove_index(s, i) ==
    [k \in 1 .. Len(s) - 1 |-> IF k < i THEN s[k] ELSE s[k + 1]]

(* The spool is reallocated, one entry larger, only when it is full.       *)
list_append(c) ==
    /\ spool' = Append(spool, c)
    /\ capacity' = IF Len(spool) < capacity THEN capacity ELSE Len(spool) + 1

(* Mutant of Closing: the descriptor is not looked at.                     *)
Closing_any(D) == D

(* Of the clients asked to close, those whose descriptor is still open get *)
(* a CLIENT_DISCONNECT and lose the descriptor; the others are left alone. *)
Closing(D) == {c \in D : fd[c]}

aisl_client_close(D) ==
    /\ fd' = [c \in Clients |-> fd[c] /\ c \notin Closing(D)]
    /\ events' = [c \in Clients |->
                    IF c \in Closing(D) THEN Append(events[c], "CLIENT_DISCONNECT")
                                        ELSE events[c]]

-----------------------------------------------------------------------------
(* One aisl_run_cycle.                                                     *)

StartCycle ==
    /\ pc = "app"
    /\ pc' = "servers"
    /\ pos' = 1
    /\ UNCHANGED <<srv, client, fd, silence, events, spool, capacity, start, touched>>

(* The server loop has reached server pos.                                 *)
AtServer(state) == pc = "servers" /\ pos \in Servers /\ srv[pos] = state

(* Opening is tried again in every cycle until it succeeds; SERVER_READY   *)
(* or SERVER_ERROR is raised, and the handler may close clients.           *)
ServerOpen ==
    /\ AtServer("closed")
    /\ \E up \in BOOLEAN : srv' = IF up THEN [srv EXCEPT ![pos] = "listening"] ELSE srv
    /\ \E D \in SUBSET Online : aisl_client_close(D)
    /\ pos' = pos + 1
    /\ UNCHANGED <<client, silence, spool, capacity, pc, start, touched>>

(* Nobody waits, or accept or fcntl failed and the descriptor was closed.  *)
AcceptNothing ==
    /\ AtServer("listening")
    /\ pos' = pos + 1
    /\ UNCHANGED <<srv, client, fd, silence, events, spool, capacity, pc, start, touched>>

(* A plain server builds the client and the loop puts it into the spool.   *)
AcceptClient(c) ==
    /\ AtServer("listening")
    /\ pos \notin Secure
    /\ client[c] = "absent"
    /\ client' = [client EXCEPT ![c] = "live"]
    /\ fd' = [fd EXCEPT ![c] = TRUE]
    /\ silence' = [silence EXCEPT ![c] = 0]
    /\ list_append(c)
    /\ pos' = pos + 1
    /\ UNCHANGED <<srv, events, pc, start, touched>>

(* The client object is built and freed again: its buffer, stream or TLS   *)
(* session could not be made, or the spool could not grow.  On a secure    *)
(* server aisl_get_ssl_ctx is asked for the context of no host, answers    *)
(* NULL, and SSL_new fails every time.  aisl_client_free raises events.    *)
AcceptRefused(c) ==
    /\ AtServer("listening")
    /\ pos \in Secure \/ OutOfMemory
    /\ client[c] = "absent"
    /\ client' = [client EXCEPT ![c] = "freed"]
    /\ \E D \in SUBSET Online :
          /\ fd' = [d \in Clients |-> fd[d] /\ d \notin D]
          /\ events' = [d \in Clients |->
                          IF d \in D \cup {c} THEN Append(events[d], "CLIENT_DISCONNECT")
                                              ELSE events[d]]
    /\ pos' = pos + 1
    /\ UNCHANGED <<srv, silence, spool, capacity, pc, start, touched>>

(* The client object itself cannot be allocated: aisl_client_new returns   *)
(* NULL and nobody closes the accepted descriptor.                         *)
AcceptLeaked(c) ==
    /\ AtServer("listening")
    /\ OutOfMemory
    /\ client[c] = "absent"
    /\ client' = [client EXCEPT ![c] = "leaked"]
    /\ fd' = [fd EXCEPT ![c] = TRUE]
    /\ pos' = pos + 1
    /\ UNCHANGED <<srv, silence, events, spool, capacity, pc, start, touched>>

(* Mutant of EnterClients: the walk begins before the first entry.         *)
EnterClients_at_zero ==
    /\ pc = "servers"
    /\ pos \notin Servers
    /\ pc' = "clients"
    /\ pos' = 0
    /\ start' = spool
    /\ touched' = {}
    /\ UNCHANGED <<srv, client, fd, silence, events, spool, capacity>>

(* Mutant of EnterClients: the walk begins behind the first entry.         *)
EnterClients_at_second ==
    /\ pc = "servers"
    /\ pos \notin Servers
    /\ pc' = "clients"
    /\ pos' = 2
    /\ start' = spool
    /\ touched' = {}
    /\ UNCHANGED <<srv, client, fd, silence, events, spool, capacity>>

EnterClients ==
    /\ pc = "servers"
    /\ pos \notin Servers
    /\ pc' = "clients"
    /\ pos' = 1
    /\ start' = spool
    /\ touched' = {}
    /\ UNCHANGED <<srv, client, fd, silence, events, spool, capacity>>

AtClient == pc = "clients" /\ pos \in 1 .. Len(spool)

(* Mutant of TouchKeep: nobody is too silent.                              *)
TouchKeep_patient ==
    /\ AtClient
    /\ LET c == spool[pos] IN
          /\ c \in Online
          /\ \E D \in SUBSET (Online \ {c}) : aisl_client_close(D)
          /\ \E heard \in BOOLEAN :
                /\ heard \/ silence[c] <= Timeout
                /\ silence' = IF heard THEN [silence EXCEPT ![c] = 0] ELSE silence
          /\ touched' = touched \cup {c}
    /\ pos' = pos + 1
    /\ UNCHANGED <<srv, client, spool, capacity, pc, start>>

(* The client at pos is touched and still online.  Heard: something was    *)
(* read, parsed or sent, and the timestamp is renewed; not heard: it is    *)
(* within the silence timeout.  The handlers called may close others.      *)
TouchKeep ==
    /\ AtClient
    /\ LET c == spool[pos] IN
          /\ c \in Online
          /\ \E D \in SUBSET (Online \ {c}) : aisl_client_close(D)
          /\ \E heard \in BOOLEAN :
                /\ heard \/ silence[c] < Timeout
                /\ silence' = IF heard THEN [silence EXCEPT ![c] = 0] ELSE silence
          /\ touched' = touched \cup {c}
    /\ pos' = pos + 1
    /\ UNCHANGED <<srv, client, spool, capacity, pc, start>>

(* The client at pos is offline after its touch: it was before, or the     *)
(* peer left, a call failed, the silence was too long, the response ended, *)
(* or a handler closed it.  It is freed and its entry removed, the index   *)
(* advances all the same, and the next client is not visited.              *)
TouchReap ==
    /\ AtClient
    /\ LET c == spool[pos] IN
          /\ \E D \in SUBSET (Online \ {c}) : aisl_client_close(D \cup {c})
          /\ client' = [client EXCEPT ![c] = "freed"]
          /\ silence' = [silence EXCEPT ![c] = 0]
          /\ touched' = touched \cup {c}
    /\ spool' = list_remove_index(spool, pos)
    /\ pos' = pos + 1
    /\ UNCHANGED <<srv, capacity, pc, start>>

EndCycle ==
    /\ pc = "clients"
    /\ pos > Len(spool)
    /\ pc' = "app"
    /\ pos' = 1
    /\ start' = <<>>
    /\ touched' = {}
    /\ UNCHANGED <<srv, client, fd, silence, events, spool, capacity>>

-----------------------------------------------------------------------------
(* The application between two cycles, the clock, and teardown.            *)

(* aisl_client_disconnect or aisl_reject called outside any handler.       *)
AppDisconnect ==
    /\ pc = "app"
    /\ \E D \in SUBSET Online : D # {} /\ aisl_client_close(D)
    /\ UNCHANGED <<srv, client, silence, spool, capacity, pc, pos, start, touched>>

(* A second passes while somebody is silent.                               *)
Tick ==
    /\ pc \in Serving
    /\ \E c \in Online : silence[c] < Timeout
    /\ silence' = [c \in Clients |->
                     IF c \in Online /\ silence[c] < Timeout THEN silence[c] + 1
                                                             ELSE silence[c]]
    /\ UNCHANGED <<srv, client, fd, events, spool, capacity, pc, pos, start, touched>>

(* aisl_free releases the servers first ...                                *)
Free ==
    /\ pc = "app"
    /\ srv' = [s \in Servers |-> "freed"]
    /\ pc' = "down"
    /\ pos' = 1
    /\ UNCHANGED <<client, fd, silence, events, spool, capacity, start, touched>>

AtRelease == pc = "down" /\ pos \in 1 .. Len(spool)

(* ... and then the clients, whose last events are raised through the      *)
(* instance pointer of their freed server.  That read may find the old     *)
(* value, so that the application gets its events,                         *)
ReleaseDelivered ==
    /\ AtRelease
    /\ LET c == spool[pos] IN
          /\ \E D \in SUBSET (Online \ {c}) : aisl_client_close(D \cup {c})
          /\ client' = [client EXCEPT ![c] = "freed"]
          /\ silence' = [silence EXCEPT ![c] = 0]
    /\ pos' = pos + 1
    /\ UNCHANGED <<srv, spool, capacity, pc, start, touched>>

(* or memory without a callback, so that the events are lost,              *)
ReleaseLost ==
    /\ AtRelease
    /\ LET c == spool[pos] IN
          /\ fd' = [fd EXCEPT ![c] = FALSE]
          /\ client' = [client EXCEPT ![c] = "freed"]
          /\ silence' = [silence EXCEPT ![c] = 0]
    /\ pos' = pos + 1
    /\ UNCHANGED <<srv, events, spool, capacity, pc, start, touched>>

(* or anything else, and the program dies.                                 *)
ReleaseCrash ==
    /\ AtRelease
    /\ pc' = "crashed"
    /\ UNCHANGED <<srv, client, fd, silence, events, spool, capacity, pos, start, touched>>

ReleaseDone ==
    /\ pc = "down"
    /\ pos > Len(spool)
    /\ spool' = <<>>
    /\ pc' = "gone"
    /\ UNCHANGED <<srv, client, fd, silence, events, capacity, pos, start, touched>>

Halted == pc \in {"gone", "crashed"} /\ UNCHANGED vars

Accept(c) == AcceptClient(c) \/ AcceptRefused(c) \/ AcceptLeaked(c)

Cycle ==
    \/ StartCycle \/ ServerOpen \/ AcceptNothing
    \/ \E c \in Clients : Accept(c)
    \/ EnterClients \/ TouchKeep \/ TouchReap \/ EndCycle

Release == ReleaseDelivered \/ ReleaseLost \/ ReleaseCrash \/ ReleaseDone

Next == Cycle \/ AppDisconnect \/ Tick \/ Free \/ Release \/ Halted

Spec == Init /\ [][Next]_vars

(* The application keeps calling aisl_run_cycle (hello-world.c and         *)
(* bare/src/main.c do nothing else), a call runs to its end, and time      *)
(* passes.  Nothing is assumed of peers or of the calls the application    *)
(* makes, and aisl_free may come at any time between two cycles.           *)
FairSpec == Spec /\ WF_vars(Cycle) /\ WF_vars(Tick)

-----------------------------------------------------------------------------
(* Properties.                                                             *)

TypeOK ==
    /\ srv \in [Servers -> ServerStates]
    /\ client \in [Clients -> ClientStates]
    /\ fd \in [Clients -> BOOLEAN]
    /\ silence \in [Clients -> 0 .. Timeout]
    /\ events \in [Clients -> Seq(ClientEvents)]
    /\ spool \in Seq(Clients)
    /\ capacity \in Nat
    /\ pc \in Points
    /\ pos \in Nat \ {0}
    /\ start \in Seq(Clients)
    /\ touched \in SUBSET Clients

(* The spool holds each allocated client once and nothing else, so that    *)
(* no client is freed twice, used after it was freed, or forgotten; while  *)
(* it is released, this holds of its part from pos on.  The entries stay   *)
(* within the allocated array.                                             *)
SpoolOwnsLive ==
    /\ Len(spool) <= capacity
    /\ \A i, j \in 1 .. Len(spool) : spool[i] = spool[j] => i = j
    /\ \A c \in Clients :
          client[c] = "live" <=>
              \E i \in 1 .. Len(spool) :
                  /\ spool[i] = c
                  /\ pc \in {"down", "crashed"} => i >= pos

(* An accepted connection is reported lost exactly when its descriptor is  *)
(* closed, and once, however many parts of the program ask to close it:    *)
(* no event while online, one from then on.  Events raised during teardown *)
(* may be lost, never doubled.                                             *)
DisconnectOnce ==
    \A c \in Clients :
        /\ client[c] = "absent" \/ fd[c] => events[c] = <<>>
        /\ client[c] \notin {"absent", "leaked"} /\ ~fd[c] =>
              \/ events[c] = <<"CLIENT_DISCONNECT">>
              \/ pc \notin Serving /\ events[c] = <<>>
        /\ fd[c] => client[c] \in {"live", "leaked"}

(* Removing an entry while walking the spool makes the loop miss the next  *)
(* client.  The one it misses has moved closer to the front than it was    *)
(* when the cycle began, so no client can be missed for ever.              *)
MissedMovesUp ==
    pc = "clients" =>
        \A i \in 1 .. Len(spool) :
            i < pos /\ spool[i] \notin touched =>
                \E j \in 1 .. Len(start) : start[j] = spool[i] /\ j > i

(* Every client in the spool is visited again, however often neighbours    *)
(* are removed before it, unless the instance is freed.                    *)
Over == pc \notin Serving

EveryClientVisited ==
    \A c \in Clients :
        client[c] = "live" ~> c \in touched \/ client[c] # "live" \/ Over

(* A client closed by anyone, at any point, is freed by the loop.          *)
OfflineReaped ==
    \A c \in Clients :
        client[c] = "live" /\ ~fd[c] ~> client[c] = "freed" \/ Over

(* A client that stays silent for the timeout is closed unless it is heard *)
(* at last.                                                                *)
SilentClosed ==
    \A c \in Clients :
        c \in Online /\ silence[c] = Timeout ~> ~fd[c] \/ silence[c] = 0 \/ Over

(* What the documentation says and the code does not do.                   *)

(* config.h: client_accept_limit is the maximal number of concurrent       *)
(* clients.                                                                *)
AcceptLimitHonoured == Len(spool) <= AcceptLimit

(* types.h lists CLIENT_CONNECT beside CLIENT_DISCONNECT, and bare/router  *)
(* logs it: a client that is lost was announced before.                    *)
ConnectAnnounced ==
    \A c \in Clients : events[c] # <<>> => events[c][1] = "CLIENT_CONNECT"

(* stream.h: the application releases a stream's context on STREAM_CLOSE,  *)
(* so teardown must deliver it and never die in raising it.                *)
TeardownSurvives == pc # "crashed"

(* config.h: `secure` asks for TLS.  A connection to a secure server is    *)
(* served, as long as memory lasts.                                        *)
SecureServed ==
    [][\A c \in Clients : ~OutOfMemory /\ client[c] = "absent" => client'[c] # "freed"]_vars
=============================================================================
