-------------------------- MODULE EventLoopProofs --------------------------
(***************************************************************************)
(* Proofs about EventLoop, for any set of clients, any servers, any spool  *)
(* size and any timeout.                                                   *)
(*                                                                         *)
(* TypeOK is inductive by itself, SpoolOwnsLive under TypeOK, and          *)
(* DisconnectOnce under both.  MissedMovesUp is not: it speaks of entries  *)
(* already passed, and what will have been passed after the next step are  *)
(* the entries ahead, so WalkInv ties these to the spool as it was when    *)
(* the walk began.                                                         *)
(***************************************************************************)
EXTENDS EventLoop, SequenceTheorems, TLAPS

(* Removing index i of a sequence keeps the entries before i in place and  *)
(* moves each later one down by one.                                       *)
LEMMA RemoveIndex ==
    ASSUME NEW S, NEW s \in Seq(S), NEW i \in 1 .. Len(s)
    PROVE  /\ list_remove_index(s, i) \in Seq(S)
           /\ Len(list_remove_index(s, i)) = Len(s) - 1
           /\ \A k \in 1 .. Len(s) - 1 :
                 list_remove_index(s, i)[k] = IF k < i THEN s[k] ELSE s[k + 1]
<1> DEFINE r == list_remove_index(s, i)
<1>1. Len(s) - 1 \in Nat
  OBVIOUS
<1>2. r \in [1 .. Len(s) - 1 -> S]
  BY DEF list_remove_index
<1>3. r \in Seq(S) /\ Len(r) = Len(s) - 1
  BY <1>1, <1>2, SeqDef, LenProperties
<1> QED
  BY <1>3 DEF list_remove_index

(* Every step keeps every variable in its type.                            *)
THEOREM TypeCorrect == Spec => []TypeOK
<1>1. Init => TypeOK
  BY ConfigAssumption DEF Init, TypeOK, ServerStates, ClientStates, Points
<1>2. TypeOK /\ [Next]_vars => TypeOK'
  <2> SUFFICES ASSUME TypeOK, [Next]_vars PROVE TypeOK'
    OBVIOUS
  <2> USE ConfigAssumption DEF TypeOK, ServerStates, ClientStates, ClientEvents, Points
  <2>0. ASSUME NEW D \in SUBSET Clients, aisl_client_close(D)
        PROVE  fd' \in [Clients -> BOOLEAN] /\ events' \in [Clients -> Seq(ClientEvents)]
    <3>1. \A c \in Clients : Append(events[c], "CLIENT_DISCONNECT") \in Seq(ClientEvents)
      BY AppendProperties
    <3> QED
      BY <2>0, <3>1 DEF aisl_client_close, Closing
  <2>1. CASE StartCycle
    BY <2>1 DEF StartCycle
  <2>2. CASE ServerOpen
    <3>1. PICK D \in SUBSET Online : aisl_client_close(D)
      BY <2>2 DEF ServerOpen
    <3>2. D \in SUBSET Clients
      BY DEF Online
    <3>3. fd' \in [Clients -> BOOLEAN] /\ events' \in [Clients -> Seq(ClientEvents)]
      BY <2>0, <3>1, <3>2
    <3>4. srv' \in [Servers -> ServerStates]
      BY <2>2 DEF ServerOpen
    <3> QED
      BY <2>2, <3>3, <3>4 DEF ServerOpen
  <2>3. CASE AcceptNothing
    BY <2>3 DEF AcceptNothing
  <2>4. ASSUME NEW c \in Clients, AcceptClient(c) PROVE TypeOK'
    BY <2>4, AppendProperties DEF AcceptClient, list_append
  <2>5. ASSUME NEW c \in Clients, AcceptRefused(c) PROVE TypeOK'
    <3>1. \A d \in Clients : Append(events[d], "CLIENT_DISCONNECT") \in Seq(ClientEvents)
      BY AppendProperties
    <3> QED
      BY <2>5, <3>1 DEF AcceptRefused
  <2>6. ASSUME NEW c \in Clients, AcceptLeaked(c) PROVE TypeOK'
    BY <2>6 DEF AcceptLeaked
  <2>7. CASE EnterClients
    BY <2>7 DEF EnterClients
  <2>8. CASE TouchKeep
    <3>1. spool[pos] \in Clients
      BY <2>8, ElementOfSeq DEF TouchKeep, AtClient
    <3>2. PICK D \in SUBSET (Online \ {spool[pos]}) : aisl_client_close(D)
      BY <2>8 DEF TouchKeep
    <3>3. D \in SUBSET Clients
      BY DEF Online
    <3>4. fd' \in [Clients -> BOOLEAN] /\ events' \in [Clients -> Seq(ClientEvents)]
      BY <2>0, <3>2, <3>3
    <3>5. silence' \in [Clients -> 0 .. Timeout]
      BY <2>8, <3>1 DEF TouchKeep
    <3> QED
      BY <2>8, <3>1, <3>4, <3>5 DEF TouchKeep
  <2>9. CASE TouchReap
    <3>1. spool[pos] \in Clients
      BY <2>9, ElementOfSeq DEF TouchReap, AtClient
    <3>2. list_remove_index(spool, pos) \in Seq(Clients)
      BY <2>9, RemoveIndex DEF TouchReap, AtClient
    <3> QED
      BY <2>9, <2>0, <3>1, <3>2 DEF TouchReap, AtClient, Online
  <2>10. CASE EndCycle
    BY <2>10 DEF EndCycle
  <2>11. CASE AppDisconnect
    BY <2>11, <2>0 DEF AppDisconnect, Online
  <2>12. CASE Tick
    BY <2>12 DEF Tick, Online
  <2>13. CASE Free
    BY <2>13 DEF Free
  <2>14. CASE ReleaseDelivered
    <3>1. spool[pos] \in Clients
      BY <2>14, ElementOfSeq DEF ReleaseDelivered, AtRelease
    <3> QED
      BY SMTT(30), <2>14, <2>0, <3>1 DEF ReleaseDelivered, AtRelease, Online
  <2>15. CASE ReleaseLost
    <3>1. spool[pos] \in Clients
      BY <2>15, ElementOfSeq DEF ReleaseLost, AtRelease
    <3> QED
      BY SMTT(30), <2>15, <3>1 DEF ReleaseLost, AtRelease
  <2>16. CASE ReleaseCrash
    BY <2>16 DEF ReleaseCrash
  <2>17. CASE ReleaseDone
    BY <2>17 DEF ReleaseDone
  <2>18. CASE UNCHANGED vars
    BY <2>18 DEF vars
  <2> QED
    BY <2>1, <2>2, <2>3, <2>4, <2>5, <2>6, <2>7, <2>8, <2>9, <2>10, <2>11, <2>12,
       <2>13, <2>14, <2>15, <2>16, <2>17, <2>18
    DEF Next, Cycle, Accept, Release, Halted
<1> QED
  BY <1>1, <1>2, PTL DEF Spec

-----------------------------------------------------------------------------
(* The spool holds the allocated clients, each once, within its array.     *)
THEOREM SpoolCorrect == Spec => []SpoolOwnsLive
<1>1. Init => SpoolOwnsLive
  BY ConfigAssumption DEF Init, SpoolOwnsLive
<1>2. TypeOK /\ SpoolOwnsLive /\ [Next]_vars => SpoolOwnsLive'
  <2> SUFFICES ASSUME TypeOK, SpoolOwnsLive, [Next]_vars PROVE SpoolOwnsLive'
    OBVIOUS
  <2>A. \A i \in 1 .. Len(spool) : spool[i] \in Clients
    BY ElementOfSeq DEF TypeOK
  <2>B. Len(spool) \in Nat
    BY LenProperties DEF TypeOK
  <2>C. ASSUME UNCHANGED <<spool, capacity, client>>,
               (pc' = pc /\ pos' = pos) \/ (pc \in Serving /\ pc' \in Serving)
        PROVE  SpoolOwnsLive'
    BY <2>C DEF SpoolOwnsLive, Serving
  (* A connection that never became live is in no entry.                   *)
  <2>D. ASSUME NEW c \in Clients, client[c] = "absent", pc \in Serving, pc' = pc,
               NEW v \in {"freed", "leaked"}, client' = [client EXCEPT ![c] = v],
               UNCHANGED <<spool, capacity>>
        PROVE  SpoolOwnsLive'
    BY <2>D DEF SpoolOwnsLive, Serving, TypeOK
  (* While the spool is released, the client at pos is freed.              *)
  <2>E. ASSUME AtRelease, client' = [client EXCEPT ![spool[pos]] = "freed"],
               pos' = pos + 1, UNCHANGED <<spool, capacity, pc>>
        PROVE  SpoolOwnsLive'
    <3>1. spool[pos] \in Clients /\ pos \in 1 .. Len(spool) /\ pc = "down"
      BY <2>A, <2>E DEF AtRelease
    <3>2. SUFFICES ASSUME NEW c \in Clients
          PROVE  client'[c] = "live" <=>
                   \E i \in 1 .. Len(spool) : spool[i] = c /\ i >= pos + 1
      BY <2>E, <3>1 DEF SpoolOwnsLive
    <3>3. client[c] = "live" <=> \E i \in 1 .. Len(spool) : spool[i] = c /\ i >= pos
      BY <3>1 DEF SpoolOwnsLive
    <3>4. client'[c] = "live" <=> client[c] = "live" /\ c # spool[pos]
      BY <2>E, <3>1 DEF TypeOK
    <3>5. \A i \in 1 .. Len(spool) : spool[i] # spool[pos] => i # pos
      OBVIOUS
    <3>6. \A i \in 1 .. Len(spool) : i >= pos + 1 => spool[i] # spool[pos]
      BY <3>1, <2>B DEF SpoolOwnsLive
    <3> QED
      BY <2>B, <3>1, <3>3, <3>4, <3>5, <3>6
  <2>1. CASE StartCycle
    BY <2>1, <2>C DEF StartCycle, Serving
  <2>2. CASE ServerOpen
    BY <2>2, <2>C DEF ServerOpen, AtServer, Serving
  <2>3. CASE AcceptNothing
    BY <2>3, <2>C DEF AcceptNothing, AtServer, Serving
  <2>4. ASSUME NEW c \in Clients, AcceptClient(c) PROVE SpoolOwnsLive'
    <3> DEFINE n == Len(spool)
    <3>1. /\ spool' = Append(spool, c) /\ pc = "servers" /\ pc' = "servers"
          /\ capacity' = IF n < capacity THEN capacity ELSE n + 1
          /\ client' = [client EXCEPT ![c] = "live"] /\ client[c] = "absent"
      BY <2>4 DEF AcceptClient, list_append, AtServer
    <3>2. /\ Len(spool') = n + 1 /\ spool'[n + 1] = c
          /\ \A i \in 1 .. n : spool'[i] = spool[i]
      BY <3>1, AppendProperties DEF TypeOK
    <3>3. \A i \in 1 .. n : spool[i] # c
      BY <3>1 DEF SpoolOwnsLive
    <3>4. \A i \in 1 .. n + 1 : i \in 1 .. n \/ i = n + 1
      BY <2>B
    <3>5. Len(spool') <= capacity'
      BY <2>B, <3>1, <3>2 DEF SpoolOwnsLive, TypeOK
    <3>6. \A i, j \in 1 .. n + 1 : spool'[i] = spool'[j] => i = j
      BY <3>2, <3>3, <3>4 DEF SpoolOwnsLive
    <3>7. ASSUME NEW d \in Clients
          PROVE  client'[d] = "live" <=> \E i \in 1 .. n + 1 : spool'[i] = d
      <4>1. client[d] = "live" <=> \E i \in 1 .. n : spool[i] = d
        BY <3>1 DEF SpoolOwnsLive
      <4>2. client'[d] = "live" <=> d = c \/ client[d] = "live"
        BY <3>1 DEF TypeOK
      <4>3. n + 1 \in 1 .. n + 1 /\ \A i \in 1 .. n : i \in 1 .. n + 1
        BY <2>B
      <4> QED
        BY <3>2, <3>4, <4>1, <4>2, <4>3
    <3> QED
      BY <3>1, <3>2, <3>5, <3>6, <3>7 DEF SpoolOwnsLive
  <2>5. ASSUME NEW c \in Clients, AcceptRefused(c) PROVE SpoolOwnsLive'
    BY <2>5, <2>D DEF AcceptRefused, AtServer, Serving
  <2>6. ASSUME NEW c \in Clients, AcceptLeaked(c) PROVE SpoolOwnsLive'
    BY <2>6, <2>D DEF AcceptLeaked, AtServer, Serving
  <2>7. CASE EnterClients
    BY <2>7, <2>C DEF EnterClients, Serving
  <2>8. CASE TouchKeep
    BY <2>8, <2>C DEF TouchKeep, AtClient, Serving
  <2>9. CASE TouchReap
    <3> DEFINE n == Len(spool)
               x == spool[pos]
    <3>1. /\ pc = "clients" /\ pc' = "clients" /\ pos \in 1 .. n /\ x \in Clients
          /\ spool' = list_remove_index(spool, pos) /\ capacity' = capacity
          /\ client' = [client EXCEPT ![x] = "freed"]
      BY <2>9, <2>A DEF TouchReap, AtClient
    <3>2. /\ Len(spool') = n - 1
          /\ \A k \in 1 .. n - 1 : spool'[k] = IF k < pos THEN spool[k] ELSE spool[k + 1]
      BY <3>1, RemoveIndex DEF TypeOK
    <3>3. \A i, j \in 1 .. n : spool[i] = spool[j] => i = j
      BY DEF SpoolOwnsLive
    <3>4. \A i, j \in 1 .. n - 1 : spool'[i] = spool'[j] => i = j
      BY <2>B, <3>1, <3>2, <3>3
    <3>5. ASSUME NEW d \in Clients
          PROVE  client'[d] = "live" <=> \E i \in 1 .. n - 1 : spool'[i] = d
      <4>1. client[d] = "live" <=> \E i \in 1 .. n : spool[i] = d
        BY <3>1 DEF SpoolOwnsLive
      <4>2. client'[d] = "live" <=> client[d] = "live" /\ d # x
        BY <3>1 DEF TypeOK
      <4>3. ASSUME NEW i \in 1 .. n, spool[i] = d, d # x
            PROVE  \E k \in 1 .. n - 1 : spool'[k] = d
        <5>1. CASE i < pos
          BY <2>B, <3>1, <3>2, <4>3, <5>1
        <5>2. CASE i > pos
          <6>1. i - 1 \in 1 .. n - 1 /\ ~(i - 1 < pos) /\ (i - 1) + 1 = i
            BY <2>B, <3>1, <5>2
          <6> QED
            BY <3>2, <4>3, <6>1
        <5> QED
          BY <2>B, <3>1, <4>3, <5>1, <5>2
      <4>4. ASSUME NEW k \in 1 .. n - 1, spool'[k] = d
            PROVE  d # x /\ \E i \in 1 .. n : spool[i] = d
        BY <2>B, <3>1, <3>2, <3>3, <4>4
      <4> QED
        BY <4>1, <4>2, <4>3, <4>4, <3>1, <3>2
    <3>6. Len(spool') <= capacity'
      BY <2>B, <3>1, <3>2 DEF SpoolOwnsLive, TypeOK
    <3> QED
      BY <3>1, <3>2, <3>4, <3>5, <3>6 DEF SpoolOwnsLive
  <2>10. CASE EndCycle
    BY <2>10, <2>C DEF EndCycle, Serving
  <2>11. CASE AppDisconnect
    <3>1. UNCHANGED <<spool, capacity, client>> /\ pc' = pc /\ pos' = pos
      BY <2>11 DEF AppDisconnect
    <3> QED
      BY <2>C, <3>1
  <2>12. CASE Tick
    BY <2>12, <2>C DEF Tick
  <2>13. CASE Free
    BY <2>13, <2>B DEF Free, SpoolOwnsLive
  <2>14. CASE ReleaseDelivered
    BY <2>14, <2>E DEF ReleaseDelivered
  <2>15. CASE ReleaseLost
    BY <2>15, <2>E DEF ReleaseLost
  <2>16. CASE ReleaseCrash
    BY <2>16 DEF ReleaseCrash, AtRelease, SpoolOwnsLive
  <2>17. CASE ReleaseDone
    <3>1. \A c \in Clients : client[c] # "live"
      BY <2>17, <2>B DEF ReleaseDone, SpoolOwnsLive, TypeOK
    <3> QED
      BY <2>17, <3>1 DEF ReleaseDone, SpoolOwnsLive, TypeOK
  <2>18. CASE UNCHANGED vars
    <3>1. UNCHANGED <<spool, capacity, client>> /\ pc' = pc /\ pos' = pos
      BY <2>18 DEF vars
    <3> QED
      BY <2>C, <3>1
  <2> QED
    BY <2>1, <2>2, <2>3, <2>4, <2>5, <2>6, <2>7, <2>8, <2>9, <2>10, <2>11, <2>12,
       <2>13, <2>14, <2>15, <2>16, <2>17, <2>18
    DEF Next, Cycle, Accept, Release, Halted
<1> QED
  BY <1>1, <1>2, TypeCorrect, PTL DEF Spec

-----------------------------------------------------------------------------
(* No client is reported lost twice, and none is reported lost while its   *)
(* descriptor is open; an open descriptor belongs to a live object or to   *)
(* none.                                                                   *)
THEOREM DisconnectedOnce == Spec => []DisconnectOnce
<1>1. Init => DisconnectOnce
  BY DEF Init, DisconnectOnce
<1>2. TypeOK /\ SpoolOwnsLive /\ DisconnectOnce /\ [Next]_vars => DisconnectOnce'
  <2> SUFFICES ASSUME TypeOK, SpoolOwnsLive, DisconnectOnce, [Next]_vars PROVE DisconnectOnce'
    OBVIOUS
  <2> USE DEF DisconnectOnce, Serving
  <2>A. Append(<<>>, "CLIENT_DISCONNECT") = <<"CLIENT_DISCONNECT">>
    OBVIOUS
  (* Closing online clients is safe while none of them changes its life,   *)
  (* and so is freeing a client that has just been closed.                 *)
  <2>B. ASSUME NEW D \in SUBSET Clients, aisl_client_close(D), NEW c \in Clients
        PROVE  /\ fd'[c] \in BOOLEAN
               /\ c \in D => ~fd'[c]
               /\ fd'[c] => fd[c]
               /\ fd[c] /\ c \notin D => fd'[c]
               /\ events'[c] = IF fd[c] /\ ~fd'[c] THEN <<"CLIENT_DISCONNECT">>
                                                   ELSE events[c]
    BY <2>A, <2>B DEF aisl_client_close, Closing, TypeOK
  <2>C. ASSUME UNCHANGED client, pc' = pc \/ (pc \in Serving /\ pc' \in Serving),
               NEW D \in SUBSET Online, aisl_client_close(D)
        PROVE  DisconnectOnce'
    BY <2>B, <2>C DEF Online
  <2>D. ASSUME NEW x \in Clients, client[x] = "live",
               client' = [client EXCEPT ![x] = "freed"], UNCHANGED pc,
               NEW D \in SUBSET Online, aisl_client_close(D \cup {x})
        PROVE  DisconnectOnce'
    <3>1. D \cup {x} \in SUBSET Clients
      BY DEF Online
    <3>2. \A c \in D \cup {x} : client[c] = "live"
      BY <2>D DEF Online
    <3>3. \A c \in Clients : client'[c] = IF c = x THEN "freed" ELSE client[c]
      BY <2>D DEF TypeOK
    <3>4. ASSUME NEW c \in Clients, c \in D \cup {x}
          PROVE  /\ ~fd'[c] /\ client'[c] \in {"live", "freed"}
                 /\ \/ events'[c] = <<"CLIENT_DISCONNECT">>
                    \/ pc' \notin Serving /\ events'[c] = <<>>
      <4>1. ~fd'[c] /\ client[c] = "live"
        BY <2>B, <2>D, <3>1, <3>2, <3>4
      <4>2. CASE fd[c]
        BY <2>B, <2>D, <3>1, <3>3, <4>1, <4>2
      <4>3. CASE ~fd[c]
        BY <2>B, <2>D, <3>1, <3>3, <4>1, <4>3
      <4> QED
        BY <4>2, <4>3
    <3>5. ASSUME NEW c \in Clients, c \notin D \cup {x}
          PROVE  fd'[c] = fd[c] /\ events'[c] = events[c] /\ client'[c] = client[c]
      <4>1. fd[c] \in BOOLEAN /\ fd'[c] \in BOOLEAN /\ (fd'[c] <=> fd[c])
        BY <2>B, <2>D, <3>1, <3>5 DEF TypeOK
      <4>2. events'[c] = events[c]
        BY <2>B, <2>D, <3>1, <4>1
      <4> QED
        BY <3>3, <3>5, <4>1, <4>2
    <3> QED
      BY <2>D, <3>4, <3>5
  <2>1. CASE StartCycle
    BY <2>1 DEF StartCycle
  <2>2. CASE ServerOpen
    BY <2>2, <2>C DEF ServerOpen
  <2>3. CASE AcceptNothing
    BY <2>3 DEF AcceptNothing
  <2>4. ASSUME NEW c \in Clients, AcceptClient(c) PROVE DisconnectOnce'
    BY <2>4 DEF AcceptClient, TypeOK
  <2>5. ASSUME NEW c \in Clients, AcceptRefused(c) PROVE DisconnectOnce'
    BY ZenonT(40), <2>5, <2>A DEF AcceptRefused, TypeOK, Online, AtServer
  <2>6. ASSUME NEW c \in Clients, AcceptLeaked(c) PROVE DisconnectOnce'
    BY <2>6 DEF AcceptLeaked, TypeOK
  <2>7. CASE EnterClients
    BY <2>7 DEF EnterClients
  <2>8. CASE TouchKeep
    <3>1. PICK D \in SUBSET Online : aisl_client_close(D)
      BY <2>8 DEF TouchKeep
    <3> QED
      BY <2>8, <2>C, <3>1 DEF TouchKeep
  <2>9. CASE TouchReap
    <3> DEFINE x == spool[pos]
    <3>1. x \in Clients /\ client[x] = "live"
      BY <2>9, ElementOfSeq DEF TouchReap, AtClient, TypeOK, SpoolOwnsLive
    <3>2. PICK D \in SUBSET Online : aisl_client_close(D \cup {x})
      BY <2>9 DEF TouchReap
    <3> QED
      BY <2>9, <2>D, <3>1, <3>2 DEF TouchReap
  <2>10. CASE EndCycle
    BY <2>10 DEF EndCycle
  <2>11. CASE AppDisconnect
    BY <2>11, <2>C DEF AppDisconnect
  <2>12. CASE Tick
    BY <2>12 DEF Tick
  <2>13. CASE Free
    BY <2>13 DEF Free
  <2>14. CASE ReleaseDelivered
    <3> DEFINE x == spool[pos]
    <3>1. x \in Clients /\ client[x] = "live"
      BY <2>14, ElementOfSeq DEF ReleaseDelivered, AtRelease, TypeOK, SpoolOwnsLive
    <3>2. PICK D \in SUBSET Online : aisl_client_close(D \cup {x})
      BY <2>14 DEF ReleaseDelivered
    <3> QED
      BY <2>14, <2>D, <3>1, <3>2 DEF ReleaseDelivered
  <2>15. CASE ReleaseLost
    <3> DEFINE x == spool[pos]
    <3>1. x \in Clients /\ client[x] = "live" /\ pc = "down"
      BY <2>15, ElementOfSeq DEF ReleaseLost, AtRelease, TypeOK, SpoolOwnsLive
    <3> QED
      BY <2>15, <3>1 DEF ReleaseLost, TypeOK
  <2>16. CASE ReleaseCrash
    BY <2>16 DEF ReleaseCrash
  <2>17. CASE ReleaseDone
    BY <2>17 DEF ReleaseDone
  <2>18. CASE UNCHANGED vars
    BY <2>18 DEF vars
  <2> QED
    BY <2>1, <2>2, <2>3, <2>4, <2>5, <2>6, <2>7, <2>8, <2>9, <2>10, <2>11, <2>12,
       <2>13, <2>14, <2>15, <2>16, <2>17, <2>18
    DEF Next, Cycle, Accept, Release, Halted
<1> QED
  BY <1>1, <1>2, TypeCorrect, SpoolCorrect, PTL DEF Spec

-----------------------------------------------------------------------------
(* While the loop walks the spool, with r entries removed so far: the part *)
(* ahead is the tail of the spool as it was at the start, r places up; an  *)
(* entry already passed was visited, or stood further back at the start.   *)
WalkInv ==
    LET r == Len(start) - Len(spool) IN
    pc = "clients" =>
        /\ r \in 0 .. pos - 1
        /\ \A i \in 1 .. Len(spool) : i >= pos => spool[i] = start[i + r]
        /\ \A i \in 1 .. Len(spool) : i < pos /\ spool[i] \notin touched =>
              \E j \in 1 .. Len(start) : start[j] = spool[i] /\ j > i

(* However many entries one walk removes, a client it does not visit ends  *)
(* up nearer to the front of the spool than it began.                      *)
THEOREM MissedMoveUp == Spec => []MissedMovesUp
<1>1. Init => WalkInv
  BY DEF Init, WalkInv
<1>2. TypeOK /\ WalkInv /\ [Next]_vars => WalkInv'
  <2> SUFFICES ASSUME TypeOK, WalkInv, [Next]_vars PROVE WalkInv'
    OBVIOUS
  <2>A. Len(spool) \in Nat /\ Len(start) \in Nat /\ pos \in Nat /\ pos >= 1
    BY LenProperties DEF TypeOK
  <2>R. ASSUME AtClient
        PROVE  LET s == list_remove_index(spool, pos) IN
               /\ Len(s) = Len(spool) - 1
               /\ \A k \in 1 .. Len(spool) - 1 :
                     s[k] = IF k < pos THEN spool[k] ELSE spool[k + 1]
    BY <2>R, RemoveIndex DEF AtClient, TypeOK
  <2>B. ASSUME UNCHANGED <<spool, start, pos, touched, pc>> PROVE WalkInv'
    BY <2>B DEF WalkInv
  <2>1. CASE StartCycle
    BY <2>1 DEF StartCycle, WalkInv
  <2>2. CASE ServerOpen
    BY <2>2 DEF ServerOpen, AtServer, WalkInv
  <2>3. CASE AcceptNothing
    BY <2>3 DEF AcceptNothing, AtServer, WalkInv
  <2>4. ASSUME NEW c \in Clients, Accept(c) PROVE WalkInv'
    BY <2>4 DEF Accept, AcceptClient, AcceptRefused, AcceptLeaked, AtServer, WalkInv
  <2>5. CASE EnterClients
    BY <2>5, <2>A DEF EnterClients, WalkInv
  <2>6. CASE TouchKeep
    <3>1. /\ pc = "clients" /\ pc' = "clients" /\ pos \in 1 .. Len(spool) /\ pos' = pos + 1
          /\ spool' = spool /\ start' = start /\ touched' = touched \cup {spool[pos]}
      BY <2>6 DEF TouchKeep, AtClient
    <3>2. ASSUME NEW i \in 1 .. Len(spool), i < pos + 1, spool[i] \notin touched'
          PROVE  \E j \in 1 .. Len(start) : start[j] = spool[i] /\ j > i
      <4>1. i # pos /\ spool[i] \notin touched
        BY <3>1, <3>2
      <4>2. i < pos
        BY <2>A, <3>2, <4>1
      <4> QED
        BY <3>1, <4>1, <4>2 DEF WalkInv
    <3>3. \A i \in 1 .. Len(spool) : i >= pos + 1 => spool[i] = start[i + (Len(start) - Len(spool))]
      <4>1. \A i \in 1 .. Len(spool) : i >= pos => spool[i] = start[i + (Len(start) - Len(spool))]
        BY <3>1 DEF WalkInv
      <4>2. \A i \in 1 .. Len(spool) : i >= pos + 1 => i >= pos
        BY <2>A
      <4> QED
        BY <4>1, <4>2
    <3>4. Len(start) - Len(spool) \in 0 .. (pos + 1) - 1
      BY <2>A, <3>1 DEF WalkInv
    <3> QED
      BY <3>1, <3>2, <3>3, <3>4 DEF WalkInv
  <2>7. CASE TouchReap
    <3> DEFINE n == Len(spool)
               r == Len(start) - Len(spool)
    <3>1. /\ pc = "clients" /\ pc' = "clients" /\ pos \in 1 .. n /\ pos' = pos + 1
          /\ spool' = list_remove_index(spool, pos) /\ start' = start
          /\ touched \subseteq touched'
      BY <2>7 DEF TouchReap, AtClient
    <3>2. /\ Len(spool') = n - 1
          /\ \A k \in 1 .. n - 1 : spool'[k] = IF k < pos THEN spool[k] ELSE spool[k + 1]
      BY <2>7, <2>R, <3>1 DEF TouchReap
    <3>3. r \in 0 .. pos - 1 /\ Len(start') - Len(spool') = r + 1
      BY <2>A, <3>1, <3>2 DEF WalkInv
    <3>4. \A k \in 1 .. n : k >= pos => spool[k] = start[k + r]
      BY <3>1 DEF WalkInv
    <3>5. ASSUME NEW i \in 1 .. n - 1, i >= pos
          PROVE  spool'[i] = start[i + (r + 1)]
      <4>1. i + 1 \in 1 .. n /\ i + 1 >= pos /\ ~(i < pos) /\ (i + 1) + r = i + (r + 1)
        BY <2>A, <3>1, <3>3, <3>5
      <4> QED
        BY <3>2, <3>4, <4>1
    <3>6. ASSUME NEW i \in 1 .. n - 1, i < pos + 1, spool'[i] \notin touched'
          PROVE  \E j \in 1 .. Len(start) : start[j] = spool'[i] /\ j > i
      <4>1. CASE i < pos
        <5>1. i \in 1 .. n /\ spool'[i] = spool[i] /\ spool[i] \notin touched
          BY <2>A, <3>1, <3>2, <3>6, <4>1
        <5> QED
          BY <3>1, <4>1, <5>1 DEF WalkInv
      <4>2. CASE i = pos
        <5>1. i + (r + 1) \in 1 .. Len(start) /\ i + (r + 1) > i
          BY <2>A, <3>1, <3>3, <4>2
        <5>2. spool'[i] = start[i + (r + 1)]
          BY <2>A, <3>1, <3>5, <4>2
        <5> QED
          BY <5>1, <5>2
      <4> QED
        BY <2>A, <3>1, <3>6, <4>1, <4>2
    <3>7. r + 1 \in 0 .. (pos + 1) - 1
      BY <2>A, <3>3
    <3>8. \A i \in 1 .. n - 1 : i >= pos + 1 => spool'[i] = start[i + (r + 1)]
      BY <2>A, <3>1, <3>5
    <3> QED
      BY <3>1, <3>2, <3>3, <3>6, <3>7, <3>8 DEF WalkInv
  <2>8. CASE EndCycle
    BY <2>8 DEF EndCycle, WalkInv
  <2>9. CASE AppDisconnect
    BY <2>9, <2>B DEF AppDisconnect
  <2>10. CASE Tick
    BY <2>10, <2>B DEF Tick
  <2>11. CASE Free
    BY <2>11 DEF Free, WalkInv
  <2>12. CASE Release
    BY <2>12 DEF Release, ReleaseDelivered, ReleaseLost, ReleaseCrash, ReleaseDone,
                 AtRelease, WalkInv
  <2>13. CASE UNCHANGED vars
    BY <2>13, <2>B DEF vars
  <2> QED
    BY <2>1, <2>2, <2>3, <2>4, <2>5, <2>6, <2>7, <2>8, <2>9, <2>10, <2>11, <2>12, <2>13
    DEF Next, Cycle, Halted
<1>3. WalkInv => MissedMovesUp
  BY DEF WalkInv, MissedMovesUp
<1> QED
  BY <1>1, <1>2, <1>3, TypeCorrect, PTL DEF Spec
=============================================================================
