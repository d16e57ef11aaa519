------------------------------ MODULE Lifecycle ------------------------------
(***************************************************************************)
(* How instances are made and freed: aisl_new and aisl_free                *)
(* (src/src/instance.c), with the TLS contexts they load and share         *)
(* (ssl.c), the servers and the client spool they allocate, and what all   *)
(* instances of the process have in common, the counter m_instances and    *)
(* the OpenSSL library.                                                    *)
(*                                                                         *)
(* aisl_new allocates in many steps, each of which may fail; then it calls *)
(* aisl_free on what it has so far.  One call runs at a time.  Clients are *)
(* the subject of EventLoop.                                               *)
(***************************************************************************)
EXTENDS Integers, Sequences, FiniteSets

CONSTANTS
    Instances,
    NumServers,   \* cfg->srv_cnt
    Configs,      \* the values of cfg->ssl: sequences of [host, key_file, crt_file]
    Loadable,     \* the pairs <<crt_file, key_file>> that OpenSSL accepts
    CounterSize,  \* the number of values of m_instances: 2^32 in the code
    MaxFailures,  \* bound: calls of aisl_new that fail before they are counted
    OutOfMemory   \* whether allocations may fail

NULL == "null"
Strings == UNION {{e.host, e.key_file, e.crt_file} :
                     e \in UNION {{cfg[n] : n \in 1 .. Len(cfg)} : cfg \in Configs}}

ASSUME LifecycleAssumption ==
    /\ NumServers \in Nat
    /\ \A cfg \in Configs : cfg \in Seq([host : Strings, key_file : Strings, crt_file : Strings])
    /\ NULL \notin Strings
    /\ CounterSize \in Nat \ {0} /\ MaxFailures \in Nat
    /\ OutOfMemory \in BOOLEAN

VARIABLES
    life,         \* what the application has of each instance
    config,       \* the cfg->ssl an instance is made from
    servers,      \* how many servers instance->srv holds
    ssl,          \* the entries of instance->ssl
    heap,         \* the blocks that are allocated
    m_instances,
    library,      \* whether OpenSSL is set up
    pc,           \* where the thread is
    me,           \* the instance that is made or freed
    uncounted     \* history: calls of aisl_new that failed before they were counted

vars == <<life, config, servers, ssl, heap, m_instances, library, pc, me, uncounted>>

(* A block that instance i allocated for a purpose; n numbers servers and  *)
(* entries.                                                                *)
Purposes == {"instance", "srv", "server", "ssl", "entry", "host", "key_file",
             "crt_file", "ctx", "spool"}
Block(i, what, n) == [of |-> i, what |-> what, n |-> n]

Init ==
    /\ life = [i \in Instances |-> "none"]
    /\ config = [i \in Instances |-> <<>>]
    /\ servers = [i \in Instances |-> 0]
    /\ ssl = [i \in Instances |-> <<>>]
    /\ heap = {}
    /\ m_instances = 0
    /\ library = FALSE
    /\ pc = "app"
    /\ me \in Instances
    /\ uncounted = 0

-----------------------------------------------------------------------------
(* Entries (ssl.c).                                                        *)

(* An entry as aisl_ssl_new leaves it once the first k of its allocations  *)
(* succeeded: the entry, its host, its files.  One that shares a context   *)
(* keeps no names of files.                                                *)
aisl_ssl_new(key_file, crt_file, host, ctx, n, k) ==
    [n |-> n,
     host     |-> IF k >= 2 THEN host ELSE NULL,
     key_file |-> IF k >= 3 THEN key_file ELSE NULL,
     crt_file |-> IF k >= 4 THEN crt_file ELSE NULL,
     ctx      |-> ctx]

NoContext == Block(NULL, "ctx", 0)

(* Mutant of aisl_ssl_free: a context is freed by all who refer to it.     *)
aisl_ssl_free_context(i, e) ==
    {Block(i, "entry", e.n)} \cup {Block(i, "host", e.n) : x \in {e.host} \ {NULL}}
    \cup ({e.ctx} \ {NoContext})
    \cup {Block(i, "key_file", e.n) : x \in {e.key_file} \ {NULL}}
    \cup {Block(i, "crt_file", e.n) : x \in {e.crt_file} \ {NULL}}

(* Mutant of aisl_ssl_free: the name of the certificate is forgotten.      *)
aisl_ssl_free_names(i, e) ==
    {Block(i, "entry", e.n)} \cup {Block(i, "host", e.n) : x \in {e.host} \ {NULL}}
    \cup (IF e.key_file = NULL THEN {} ELSE {Block(i, "key_file", e.n), e.ctx} \ {NoContext})

(* The blocks that aisl_ssl_free frees: who has a key file owns a context. *)
aisl_ssl_free(i, e) ==
    {Block(i, "entry", e.n)} \cup {Block(i, "host", e.n) : x \in {e.host} \ {NULL}}
    \cup (IF e.key_file = NULL THEN {} ELSE {Block(i, "key_file", e.n), e.ctx} \ {NoContext})
    \cup {Block(i, "crt_file", e.n) : x \in {e.crt_file} \ {NULL}}

(* Mutant of Shared: contexts of other instances are found too.            *)
Shared_global(i, c) ==
    LET same == {e \in UNION {{ssl[j][n] : n \in 1 .. Len(ssl[j])} : j \in Instances} :
                    e.key_file = c.key_file /\ e.crt_file = c.crt_file} IN
    IF same = {} THEN NoContext ELSE (CHOOSE e \in same : TRUE).ctx

(* The context that aisl_new_ssl finds for the files of c: the first whose *)
(* entry has the same.                                                     *)
Shared(i, c) ==
    LET same == {n \in 1 .. Len(ssl[i]) : /\ ssl[i][n].key_file = c.key_file
                                          /\ ssl[i][n].crt_file = c.crt_file} IN
    IF same = {} THEN NoContext
    ELSE ssl[i][CHOOSE n \in same : \A m \in same : n <= m].ctx

(* What aisl_new_ssl passes to aisl_ssl_new, in its order.                 *)
NewEntry(c, ctx, n, k) == aisl_ssl_new(c.host, c.key_file, c.crt_file, ctx, n, k)

(* The context of the first entry for a host.                              *)
aisl_get_ssl_ctx(i, host) ==
    LET of == {n \in 1 .. Len(ssl[i]) : ssl[i][n].host = host} IN
    IF of = {} THEN NoContext
    ELSE ssl[i][CHOOSE n \in of : \A m \in of : n <= m].ctx

-----------------------------------------------------------------------------
(* aisl_new.                                                               *)

At(point) == pc = point

Then(point) == pc' = point

(* An allocation that succeeds.                                            *)
Allocate(blocks) == heap' = heap \cup blocks

(* One that fails: aisl_new goes to its label "release".                   *)
Fail ==
    /\ OutOfMemory
    /\ Then("release")
    /\ UNCHANGED heap

New(i) ==
    /\ At("app") /\ life[i] = "none"
    /\ \E cfg \in Configs : config' = [config EXCEPT ![i] = cfg]
    /\ me' = i
    /\ life' = [life EXCEPT ![i] = "made"]
    /\ Allocate({Block(i, "instance", 0)})
    /\ Then("srv")
    /\ UNCHANGED <<servers, ssl, m_instances, library, uncounted>>

NewServers ==
    /\ At("srv")
    /\ \/ Allocate({Block(me, "srv", 0)}) /\ Then("server") /\ UNCHANGED uncounted
       \/ uncounted < MaxFailures /\ Fail /\ uncounted' = uncounted + 1
    /\ UNCHANGED <<life, config, servers, ssl, m_instances, library, me>>

NewServer ==
    LET n == servers[me] + 1 IN
    /\ At("server") /\ n <= NumServers
    /\ \/ /\ Allocate({Block(me, "server", n)})
          /\ servers' = [servers EXCEPT ![me] = n]
          /\ UNCHANGED <<pc, uncounted>>
       \/ /\ uncounted < MaxFailures
          /\ Fail /\ uncounted' = uncounted + 1
          /\ UNCHANGED servers
    /\ UNCHANGED <<life, config, ssl, m_instances, library, me>>

(* The first instance sets OpenSSL up.                                     *)
Count ==
    /\ At("server") /\ servers[me] = NumServers
    /\ m_instances' = (m_instances + 1) % CounterSize
    /\ library' = (library \/ m_instances = 0)
    /\ Then("ssl")
    /\ UNCHANGED <<life, config, servers, ssl, heap, me, uncounted>>

NewEntries ==
    /\ At("ssl")
    /\ \/ Allocate({Block(me, "ssl", 0)}) /\ Then("entry")
       \/ Fail
    /\ UNCHANGED <<life, config, servers, ssl, m_instances, library, me, uncounted>>

NextEntry == Len(ssl[me]) + 1
AtEntry == At("entry") /\ NextEntry <= Len(config[me])
Cfg == config[me][NextEntry]

(* aisl_new_ssl shares a context ...                                       *)
EntryShared ==
    LET ctx == Shared(me, Cfg) IN
    /\ AtEntry /\ ctx # NoContext
    /\ ssl' = [ssl EXCEPT ![me] = Append(@, NewEntry(Cfg, ctx, NextEntry, 2))]
    /\ Allocate({Block(me, what, NextEntry) : what \in {"entry", "host"}})
    /\ UNCHANGED <<life, config, servers, m_instances, library, pc, me, uncounted>>

(* ... or loads one of its own.                                            *)
EntryLoaded ==
    LET ctx == Block(me, "ctx", NextEntry)
        e == NewEntry(Cfg, ctx, NextEntry, 4) IN
    /\ AtEntry /\ Shared(me, Cfg) = NoContext
    /\ <<e.crt_file, e.key_file>> \in Loadable
    /\ ssl' = [ssl EXCEPT ![me] = Append(@, e)]
    /\ Allocate({ctx} \cup {Block(me, what, NextEntry) :
                               what \in {"entry", "host", "key_file", "crt_file"}})
    /\ UNCHANGED <<life, config, servers, m_instances, library, pc, me, uncounted>>

Parts == <<"entry", "host", "key_file", "crt_file">>

(* The first k allocations succeeded and then one failed, or all did and   *)
(* the files are not accepted; what there is of the entry is freed, and a  *)
(* context that could not be loaded with it.                               *)
EntryRefused ==
    LET shared == Shared(me, Cfg) # NoContext
        all == IF shared THEN 2 ELSE 4
        full == NewEntry(Cfg, NoContext, NextEntry, 4) IN
    /\ AtEntry
    /\ \E k \in 0 .. all :
          /\ \/ k < all /\ OutOfMemory
             \/ /\ k = all /\ ~shared
                /\ OutOfMemory \/ <<full.crt_file, full.key_file>> \notin Loadable
          /\ LET e == NewEntry(Cfg, NoContext, NextEntry, k)
                 got == {Block(me, Parts[j], NextEntry) : j \in 1 .. k} IN
             heap' = (heap \cup got) \ (IF k = 0 THEN {} ELSE aisl_ssl_free(me, e))
    /\ Then("release")
    /\ UNCHANGED <<life, config, servers, ssl, m_instances, library, me, uncounted>>

(* list_init, and the instance is complete.                                *)
NewSpool ==
    /\ At("entry") /\ NextEntry > Len(config[me])
    /\ \/ /\ Allocate({Block(me, "spool", 0)})
          /\ life' = [life EXCEPT ![me] = "up"]
          /\ Then("app")
       \/ Fail /\ UNCHANGED life
    /\ UNCHANGED <<config, servers, ssl, m_instances, library, me, uncounted>>

-----------------------------------------------------------------------------
(* aisl_free, called by the application or by aisl_new.                    *)

Free(i) ==
    /\ At("app") /\ life[i] = "up"
    /\ me' = i
    /\ life' = [life EXCEPT ![i] = "made"]
    /\ Then("release")
    /\ UNCHANGED <<config, servers, ssl, heap, m_instances, library, uncounted>>

ReleaseServers ==
    /\ At("release")
    /\ heap' = heap \ ({Block(me, "srv", 0), Block(me, "spool", 0)}
                       \cup {Block(me, "server", n) : n \in 1 .. servers[me]})
    /\ servers' = [servers EXCEPT ![me] = 0]
    /\ Then("release_ssl")
    /\ UNCHANGED <<life, config, ssl, m_instances, library, me, uncounted>>

ReleaseEntry ==
    /\ At("release_ssl") /\ ssl[me] # <<>>
    /\ heap' = heap \ aisl_ssl_free(me, Head(ssl[me]))
    /\ ssl' = [ssl EXCEPT ![me] = Tail(@)]
    /\ UNCHANGED <<life, config, servers, m_instances, library, pc, me, uncounted>>

(* Mutant of Uncount: the old value is looked at.                          *)
Uncount_late ==
    /\ m_instances' = (m_instances - 1) % CounterSize
    /\ library' = (library /\ m_instances # 0)

(* Mutant of Uncount: an instance without entries was not counted.         *)
Uncount_counted ==
    /\ m_instances' = IF Block(me, "ssl", 0) \in heap THEN (m_instances - 1) % CounterSize
                                                      ELSE m_instances
    /\ library' = (library /\ m_instances' # 0)

(* Mutant of Uncount: the counter goes below zero.                         *)
Uncount_signed ==
    /\ m_instances' = m_instances - 1
    /\ library' = (library /\ m_instances' # 0)

(* Also an instance that was never counted is subtracted, and below zero   *)
(* the counter is the largest number.                                      *)
Uncount ==
    /\ m_instances' = (m_instances - 1) % CounterSize
    /\ library' = (library /\ m_instances' # 0)

ReleaseInstance ==
    /\ At("release_ssl") /\ ssl[me] = <<>>
    /\ heap' = heap \ {Block(me, "ssl", 0), Block(me, "instance", 0)}
    /\ Uncount
    /\ life' = [life EXCEPT ![me] = "none"]
    /\ config' = [config EXCEPT ![me] = <<>>]
    /\ Then("app")
    /\ UNCHANGED <<servers, ssl, me, uncounted>>

Make == \/ \E i \in Instances : New(i)
        \/ NewServers \/ NewServer \/ Count \/ NewEntries
        \/ EntryShared \/ EntryLoaded \/ EntryRefused \/ NewSpool

Release == ReleaseServers \/ ReleaseEntry \/ ReleaseInstance

Next == Make \/ (\E i \in Instances : Free(i)) \/ Release

Spec == Init /\ [][Next]_vars

-----------------------------------------------------------------------------
(* Properties.                                                             *)

Points == {"app", "srv", "server", "ssl", "entry", "release", "release_ssl"}
Blocks == [of : Instances, what : Purposes, n : Nat]

IsEntry(e) ==
    /\ {e.host, e.key_file, e.crt_file} \subseteq Strings \cup {NULL}
    /\ e.n \in Nat \ {0}
    /\ e.ctx \in Blocks

TypeOK ==
    /\ life \in [Instances -> {"none", "made", "up"}]
    /\ \A i \in Instances : config[i] \in Configs \cup {<<>>}
    /\ servers \in [Instances -> 0 .. NumServers]
    /\ DOMAIN config = Instances /\ DOMAIN ssl = Instances
    /\ \A i \in Instances : \A n \in 1 .. Len(ssl[i]) : IsEntry(ssl[i][n])
    /\ heap \subseteq Blocks
    /\ m_instances \in 0 .. CounterSize - 1
    /\ library \in BOOLEAN
    /\ pc \in Points
    /\ me \in Instances
    /\ uncounted \in 0 .. MaxFailures

Up == {i \in Instances : life[i] = "up"}

(* The blocks of a complete instance: each entry has its parts, and a      *)
(* context if it has a key file.                                           *)
Owned(i) ==
    {Block(i, what, 0) : what \in {"instance", "srv", "ssl", "spool"}}
    \cup {Block(i, "server", n) : n \in 1 .. NumServers}
    \cup UNION {aisl_ssl_free(i, ssl[i][n]) : n \in 1 .. Len(ssl[i])}

(* Between two calls exactly the blocks of the complete instances are      *)
(* allocated: whichever allocation or file failed, aisl_new leaves nothing *)
(* behind, and aisl_free leaves nothing of its instance and takes nothing  *)
(* of another.                                                             *)
NothingLeaked ==
    pc = "app" => heap = UNION {Owned(i) : i \in Up}

(* What an entry of the registry frees is allocated, in aisl_free as in an *)
(* aisl_new that failed: a context that entries share is freed once, by    *)
(* the entry that loaded it.                                               *)
FreedOnce ==
    pc = "release_ssl" /\ ssl[me] # <<>> => aisl_ssl_free(me, Head(ssl[me])) \subseteq heap

(* A handshake that names a host gets a context that is there: no entry    *)
(* refers to one that was freed, or that a failed load left behind.        *)
ContextsLive ==
    \A i \in Up : \A host \in Strings : aisl_get_ssl_ctx(i, host) \in heap \cup {NoContext}

(* Between two calls the counter is the number of instances, less those    *)
(* that were freed though they had not been counted, in the arithmetic of  *)
(* its width.                                                              *)
CounterBalance ==
    pc = "app" => m_instances = (Cardinality(Up) - uncounted) % CounterSize

(* Unless that happened, OpenSSL is set up while contexts are loaded and   *)
(* as long as there is an instance, and cleaned up with the last.          *)
LibraryUp ==
    uncounted = 0 =>
        /\ pc = "app" => (library <=> Up # {})
        /\ pc \in {"ssl", "entry"} => library

(* What documents and comments say and the code does not do.               *)

(* instance.h: aisl_new allocates a new instance, aisl_free frees the one  *)
(* it is given.  Neither takes OpenSSL from another one.                   *)
LibraryStays == Up # {} => library

(* config.h: key_file and crt_file are the paths of the key and of the     *)
(* certificate.  An instance whose files are good is made, as long as      *)
(* memory lasts.                                                           *)
ConfigAccepted ==
    [][~OutOfMemory /\ pc = "entry" /\ pc' = "release" =>
          \E n \in 1 .. Len(config[me]) :
             <<config[me][n].crt_file, config[me][n].key_file>> \notin Loadable]_vars
=============================================================================
