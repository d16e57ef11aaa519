--------------------------- MODULE LifecycleProofs ---------------------------
(***************************************************************************)
(* Proofs about Lifecycle, for any instances, configurations, files and    *)
(* widths of the counter: whichever step of aisl_new fails, aisl_new and   *)
(* aisl_free together leave nothing behind, free nothing twice, and keep   *)
(* the contexts and the library that the other instances need.             *)
(***************************************************************************)
EXTENDS Lifecycle, SequenceTheorems, FiniteSetTheorems, TLAPS

(* The entries of instance->ssl, as aisl_ssl_new leaves them.              *)
SslEntries == [n : Nat \ {0}, host : Strings \cup {NULL}, key_file : Strings \cup {NULL},
               crt_file : Strings \cup {NULL}, ctx : Blocks]

(* The blocks that entries hold, and what all complete instances hold.     *)
OfEntries(i, s) == UNION {aisl_ssl_free(i, s[n]) : n \in 1 .. Len(s)}

OfComplete == UNION {Owned(i) : i \in Up}

(* What an instance holds that has some single blocks, k servers and the   *)
(* entries s; and the one in hand.                                         *)
HeldBy(i, what, k, s) ==
    {Block(i, w, 0) : w \in what} \cup {Block(i, "server", n) : n \in 1 .. k}
    \cup OfEntries(i, s)

Held(what) == HeldBy(me, what, servers[me], ssl[me])

Singles == {"instance", "srv", "ssl", "spool"}

(* The single blocks it may have at a point.                               *)
Single(point) ==
    CASE point = "srv"              -> {{"instance"}}
      [] point \in {"server", "ssl"} -> {{"instance", "srv"}}
      [] point = "entry"            -> {{"instance", "srv", "ssl"}}
      [] point = "release"          -> {w \cup {"instance"} : w \in SUBSET {"srv", "ssl", "spool"}}
      [] OTHER                      -> {{"instance"}, {"instance", "ssl"}}

(* The heap holds the blocks of the complete instances and of the one in   *)
(* hand, and no other.                                                     *)
HeapInv ==
    /\ pc = "app" => heap = OfComplete
    /\ pc # "app" => \E what \in Single(pc) : heap = OfComplete \cup Held(what)

(* Where a call is tells what it has made so far of its instance, and the  *)
(* other instances are complete or there is nothing of them.               *)
ControlInv ==
    /\ \A i \in Instances : life[i] = "made" <=> pc # "app" /\ i = me
    /\ \A i \in Instances : life[i] = "none" => servers[i] = 0 /\ ssl[i] = <<>>
    /\ \A i \in Instances : life[i] = "up" => servers[i] = NumServers
    /\ pc \in {"srv", "release_ssl"} => servers[me] = 0
    /\ pc \in {"ssl", "entry"} => servers[me] = NumServers
    /\ pc \in {"srv", "server", "ssl"} => ssl[me] = <<>>

(* Entries are numbered as they were made; one that keeps the name of a    *)
(* key file has a context of its own; and while nothing is freed the       *)
(* context of every entry is that of one which has its own.                *)
Numbered(s) == \A m, n \in 1 .. Len(s) : m < n => s[m].n < s[n].n

OwnContext(i, s) ==
    \A n \in 1 .. Len(s) : s[n].key_file # NULL => s[n].ctx = Block(i, "ctx", s[n].n)

ContextsOwned(s) ==
    \A n \in 1 .. Len(s) : \E m \in 1 .. Len(s) :
        s[m].key_file # NULL /\ s[n].ctx = s[m].ctx

EntriesInv ==
    \A i \in Instances :
        /\ ssl[i] \in Seq(SslEntries)
        /\ Numbered(ssl[i]) /\ OwnContext(i, ssl[i])
        /\ life[i] = "up" \/ pc = "entry" => ContextsOwned(ssl[i])
        /\ pc = "entry" /\ i = me => \A n \in 1 .. Len(ssl[i]) : ssl[i][n].n <= Len(ssl[i])

(* The instances that were counted, or are now to be subtracted.           *)
Counted == IF pc \in {"app", "srv", "server"} THEN Cardinality(Up) ELSE Cardinality(Up) + 1

CounterInv ==
    /\ IsFiniteSet(Up)
    /\ m_instances = (Counted - uncounted) % CounterSize

LifecycleInv == TypeOK /\ ControlInv /\ EntriesInv /\ HeapInv

LibraryInv == uncounted = 0 => (library <=> Up # {} \/ pc \notin {"app", "srv", "server"})

-----------------------------------------------------------------------------
(* Lemmas about entries.                                                   *)

(* Among some numbers one is the least, so "the first entry that" is one.  *)
LEMMA Least ==
    ASSUME NEW S \in SUBSET Nat, S # {}
    PROVE  LET n == CHOOSE n \in S : \A m \in S : n <= m IN
           n \in S /\ \A m \in S : n <= m
<1> DEFINE R == OpToRel(<, Nat)
<1>1. IsWellFoundedOn(R, Nat)
  BY NatLessThanWellFounded
<1>2. \A m, n \in Nat : m < n => <<m, n>> \in R
  BY Zenon DEF OpToRel
<1> HIDE DEF R
<1>3. PICK n \in S : \A m \in S : <<m, n>> \notin R
  BY <1>1, WFMin
<1>4. \A m \in S : ~(m < n)
  BY <1>2, <1>3, Zenon
<1>5. \A m \in S : n <= m
  BY <1>4
<1> QED
  BY <1>5

PartNames == {"entry", "host", "key_file", "crt_file", "ctx"}

(* aisl_ssl_free frees only what is the entry's, and the context that an   *)
(* entry owns is among it.                                                 *)
LEMMA FreedByEntry ==
    ASSUME NEW i \in Instances, NEW e \in SslEntries,
           e.key_file # NULL => e.ctx = Block(i, "ctx", e.n)
    PROVE  /\ aisl_ssl_free(i, e) \subseteq [of : {i}, what : PartNames, n : {e.n}]
           /\ e.key_file # NULL => e.ctx \in aisl_ssl_free(i, e)
<1>1. e.n \in Nat \ {0}
  BY DEF SslEntries
<1>2. Block(i, "ctx", e.n) # NoContext
  BY <1>1 DEF Block, NoContext
<1>3. \A w \in PartNames : Block(i, w, e.n) \in [of : {i}, what : PartNames, n : {e.n}]
  BY DEF Block
<1>4. aisl_ssl_free(i, e) \subseteq {Block(i, w, e.n) : w \in PartNames}
  BY <1>2 DEF aisl_ssl_free, PartNames
<1> QED
  BY <1>2, <1>3, <1>4 DEF aisl_ssl_free

(* The same for all entries of an instance.                                *)
LEMMA FreedByEntries ==
    ASSUME NEW i \in Instances, NEW s \in Seq(SslEntries), OwnContext(i, s)
    PROVE  \A b \in OfEntries(i, s) :
              /\ b \in Blocks /\ b.of = i /\ b.what \in PartNames
              /\ \E n \in 1 .. Len(s) : b.n = s[n].n
<1> SUFFICES ASSUME NEW n \in 1 .. Len(s), NEW b \in aisl_ssl_free(i, s[n])
             PROVE  b \in Blocks /\ b.of = i /\ b.what \in PartNames /\ b.n = s[n].n
  BY DEF OfEntries
<1>1. s[n] \in SslEntries /\ (s[n].key_file # NULL => s[n].ctx = Block(i, "ctx", s[n].n))
  BY ElementOfSeq DEF OwnContext
<1>2. b \in [of : {i}, what : PartNames, n : {s[n].n}] /\ s[n].n \in Nat
  BY <1>1, FreedByEntry DEF SslEntries
<1> QED
  BY <1>2 DEF Blocks, PartNames, Purposes

(* A new entry adds its blocks ...                                         *)
LEMMA EntryAdded ==
    ASSUME NEW i \in Instances, NEW s \in Seq(SslEntries), NEW e \in SslEntries
    PROVE  OfEntries(i, Append(s, e)) = OfEntries(i, s) \cup aisl_ssl_free(i, e)
<1>1. /\ Len(Append(s, e)) = Len(s) + 1 /\ Len(s) \in Nat
      /\ \A n \in 1 .. Len(s) : Append(s, e)[n] = s[n]
      /\ Append(s, e)[Len(s) + 1] = e
  BY AppendProperties, LenProperties
<1>2. 1 .. Len(s) + 1 = (1 .. Len(s)) \cup {Len(s) + 1}
  BY <1>1
<1> QED
  BY <1>1, <1>2 DEF OfEntries

(* ... and the first one takes its own with it.                            *)
LEMMA EntryRemoved ==
    ASSUME NEW i \in Instances, NEW s \in Seq(SslEntries), s # <<>>,
           Numbered(s), OwnContext(i, s)
    PROVE  /\ OfEntries(i, Tail(s)) = OfEntries(i, s) \ aisl_ssl_free(i, Head(s))
           /\ aisl_ssl_free(i, Head(s)) \subseteq OfEntries(i, s)
           /\ Tail(s) \in Seq(SslEntries) /\ Numbered(Tail(s)) /\ OwnContext(i, Tail(s))
<1>1. /\ Tail(s) \in Seq(SslEntries) /\ Len(s) \in Nat \ {0}
      /\ Len(Tail(s)) = Len(s) - 1
      /\ \A n \in 1 .. Len(s) - 1 : Tail(s)[n] = s[n + 1]
      /\ Head(s) = s[1]
      /\ \A n \in 1 .. Len(s) : s[n] \in SslEntries
  BY HeadTailProperties, LenProperties, EmptySeq, ElementOfSeq
<1>2. Numbered(Tail(s)) /\ OwnContext(i, Tail(s))
  BY <1>1 DEF Numbered, OwnContext
<1>3. OfEntries(i, s) = aisl_ssl_free(i, Head(s)) \cup OfEntries(i, Tail(s))
  <2>1. 1 .. Len(s) = {1} \cup {n + 1 : n \in 1 .. Len(s) - 1}
    <3>1. \A n \in 2 .. Len(s) : n \in {m + 1 : m \in 1 .. Len(s) - 1}
      <4> TAKE n \in 2 .. Len(s)
      <4>1. n - 1 \in 1 .. Len(s) - 1 /\ n = (n - 1) + 1
        BY <1>1
      <4> QED
        BY <4>1
    <3>2. \A m \in 1 .. Len(s) - 1 : m + 1 \in 1 .. Len(s)
      BY <1>1
    <3>3. \A n \in 1 .. Len(s) : n = 1 \/ n \in 2 .. Len(s)
      BY <1>1
    <3>4. 1 \in 1 .. Len(s)
      BY <1>1
    <3> QED
      BY <3>1, <3>2, <3>3, <3>4
  <2>2. OfEntries(i, Tail(s)) = UNION {aisl_ssl_free(i, s[n + 1]) : n \in 1 .. Len(s) - 1}
    BY <1>1 DEF OfEntries
  <2>3. OfEntries(i, s) = aisl_ssl_free(i, s[1]) \cup
                          UNION {aisl_ssl_free(i, s[n + 1]) : n \in 1 .. Len(s) - 1}
    BY <2>1 DEF OfEntries
  <2> QED
    BY <1>1, <2>2, <2>3
<1>4. ASSUME NEW b \in aisl_ssl_free(i, Head(s)), b \in OfEntries(i, Tail(s))
      PROVE  FALSE
  <2>1. b.n = s[1].n
    BY <1>1, <1>4, FreedByEntry DEF OwnContext
  <2>2. PICK n \in 1 .. Len(Tail(s)) : b.n = Tail(s)[n].n
    BY ZenonT(40), <1>1, <1>2, <1>4, FreedByEntries
  <2>3. Tail(s)[n] = s[n + 1] /\ 1 < n + 1 /\ n + 1 \in 1 .. Len(s)
    BY <1>1
  <2>4. s[1].n < s[n + 1].n /\ s[1].n \in Nat
    BY SMTT(30), <1>1, <2>3 DEF Numbered, SslEntries
  <2> QED
    BY <2>1, <2>2, <2>3, <2>4
<1> QED
  BY <1>1, <1>2, <1>3, <1>4

(* A context that is found for another entry is one that an entry owns.    *)
LEMMA SharedIsOwned ==
    ASSUME NEW i \in Instances, NEW c, c.key_file # NULL, Shared(i, c) # NoContext
    PROVE  \E m \in 1 .. Len(ssl[i]) :
              ssl[i][m].key_file # NULL /\ Shared(i, c) = ssl[i][m].ctx
<1> DEFINE same == {n \in 1 .. Len(ssl[i]) : /\ ssl[i][n].key_file = c.key_file
                                             /\ ssl[i][n].crt_file = c.crt_file}
           m == CHOOSE n \in same : \A k \in same : n <= k
<1>1. same # {} /\ Shared(i, c) = ssl[i][m].ctx
  BY SMTT(30) DEF Shared
<1>2. same \in SUBSET Nat
  OBVIOUS
<1>3. m \in same
  BY <1>1, <1>2, Least
<1> QED
  BY <1>1, <1>3

-----------------------------------------------------------------------------
(* Lemmas about the heap.                                                  *)

(* What a complete instance owns is its own.                               *)
LEMMA OwnedByInstance ==
    ASSUME TypeOK, EntriesInv, NEW i \in Instances, NEW b \in Owned(i)
    PROVE  b \in Blocks /\ b.of = i
<1>1. CASE b \in {Block(i, what, 0) : what \in {"instance", "srv", "ssl", "spool"}}
  BY <1>1 DEF Block, Blocks, Purposes
<1>2. CASE b \in {Block(i, "server", n) : n \in 1 .. NumServers}
  BY <1>2, LifecycleAssumption DEF Block, Blocks, Purposes
<1>3. CASE b \in UNION {aisl_ssl_free(i, ssl[i][n]) : n \in 1 .. Len(ssl[i])}
  BY <1>3, FreedByEntries DEF OfEntries, EntriesInv
<1> QED
  BY <1>1, <1>2, <1>3 DEF Owned

(* The blocks of complete instances belong to instances that are up. *)
LEMMA OfOthers ==
    ASSUME TypeOK, EntriesInv
    PROVE  \A b \in OfComplete : b \in Blocks /\ b.of \in Up
BY OwnedByInstance DEF OfComplete, Up

(* What an instance allocates once at a point are single blocks. *)
LEMMA SingleBlocks ==
    ASSUME NEW point, NEW what \in Single(point)
    PROVE  what \in SUBSET Singles
BY DEF Single, Singles

(* A complete instance owns what one that has taken every step of its
   creation holds. *)
LEMMA OwnedIsHeld ==
    ASSUME NEW i \in Instances
    PROVE  Owned(i) = HeldBy(i, Singles, NumServers, ssl[i])
BY DEF Owned, HeldBy, OfEntries, Singles

(* What making the instance adds to what it holds: a single block, a       *)
(* server, an entry.                                                       *)
LEMMA SingleAdded ==
    ASSUME NEW i \in Instances, NEW what, NEW w, NEW more, NEW k, NEW s,
           \A x : x \in more <=> x \in what \/ x = w
    PROVE  \A b : b \in HeldBy(i, more, k, s) <=> b \in HeldBy(i, what, k, s) \/ b = Block(i, w, 0)
BY DEF HeldBy

(* Adding a server adds one block, the one of its number. *)
LEMMA ServerAdded ==
    ASSUME NEW i \in Instances, NEW what, NEW k \in Nat, NEW s
    PROVE  HeldBy(i, what, k + 1, s) = HeldBy(i, what, k, s) \cup {Block(i, "server", k + 1)}
<1>1. 1 .. k + 1 = (1 .. k) \cup {k + 1}
  OBVIOUS
<1> QED
  BY <1>1 DEF HeldBy

(* Adding a TLS entry adds the blocks that freeing the entry frees. *)
LEMMA HeldEntryAdded ==
    ASSUME NEW i \in Instances, NEW what, NEW k, NEW s \in Seq(SslEntries), NEW e \in SslEntries
    PROVE  HeldBy(i, what, k, Append(s, e)) = HeldBy(i, what, k, s) \cup aisl_ssl_free(i, e)
BY EntryAdded DEF HeldBy

(* With no server and no entry only the single blocks are held. *)
LEMMA HeldAlone ==
    ASSUME NEW i \in Instances, NEW what
    PROVE  HeldBy(i, what, 0, <<>>) = {Block(i, w, 0) : w \in what}
<1>1. OfEntries(i, <<>>) = {}
  BY EmptySeq DEF OfEntries
<1> QED
  BY <1>1 DEF HeldBy

(* What it holds has distinct names: a part of an entry is no server and   *)
(* no single block.                                                        *)
LEMMA HeldKinds ==
    ASSUME NEW i \in Instances, NEW what \in SUBSET Singles, NEW k \in Nat,
           NEW s \in Seq(SslEntries), OwnContext(i, s)
    PROVE  /\ \A w \in what : Block(i, w, 0).what \in Singles
           /\ \A n \in 1 .. k : Block(i, "server", n).what = "server"
           /\ \A b \in OfEntries(i, s) : b.what \in PartNames
           /\ \A b \in HeldBy(i, what, k, s) : b.of = i
<1>1. \A b \in OfEntries(i, s) : b.what \in PartNames /\ b.of = i
  BY FreedByEntries
<1>2. \A w, n : Block(i, w, n).what = w /\ Block(i, w, n).of = i
  BY DEF Block
<1> QED
  BY <1>1, <1>2 DEF HeldBy, Singles

(* What is freed is taken away, and nothing else.                          *)
LEMMA ServersFreed ==
    ASSUME NEW i \in Instances, NEW what \in SUBSET Singles, NEW rest, NEW k \in Nat,
           NEW s \in Seq(SslEntries), OwnContext(i, s),
           \A w : w \in rest <=> w \in what /\ w # "srv" /\ w # "spool"
    PROVE  \A b : b \in HeldBy(i, rest, 0, s) <=>
                     /\ b \in HeldBy(i, what, k, s)
                     /\ b # Block(i, "srv", 0) /\ b # Block(i, "spool", 0)
                     /\ \A n \in 1 .. k : b # Block(i, "server", n)
<1>1. \A w, n : Block(i, w, n).what = w
  BY DEF Block
<1>2. \A b \in OfEntries(i, s) : b.what \notin {"srv", "spool", "server"}
  BY HeldKinds DEF PartNames
<1>3. \A w \in what : w # "server"
  BY DEF Singles
<1> SUFFICES ASSUME NEW b
             PROVE  b \in HeldBy(i, rest, 0, s) <=>
                       /\ b \in HeldBy(i, what, k, s)
                       /\ b # Block(i, "srv", 0) /\ b # Block(i, "spool", 0)
                       /\ \A n \in 1 .. k : b # Block(i, "server", n)
  OBVIOUS
<1>4. CASE b \in OfEntries(i, s)
  BY <1>1, <1>2, <1>4 DEF HeldBy
<1>5. ASSUME NEW w \in what, b = Block(i, w, 0)
      PROVE  /\ b \in HeldBy(i, what, k, s)
             /\ w \in rest <=> b # Block(i, "srv", 0) /\ b # Block(i, "spool", 0)
             /\ \A n \in 1 .. k : b # Block(i, "server", n)
  BY <1>1, <1>3, <1>5 DEF HeldBy
<1> QED
  BY <1>4, <1>5 DEF HeldBy

(* Freeing the first entry leaves the blocks of the others. *)
LEMMA EntryFreed ==
    ASSUME NEW i \in Instances, NEW what \in SUBSET Singles, NEW k \in Nat,
           NEW s \in Seq(SslEntries), s # <<>>, Numbered(s), OwnContext(i, s)
    PROVE  HeldBy(i, what, k, s) \ aisl_ssl_free(i, Head(s)) = HeldBy(i, what, k, Tail(s))
<1>1. /\ OfEntries(i, Tail(s)) = OfEntries(i, s) \ aisl_ssl_free(i, Head(s))
      /\ \A b \in aisl_ssl_free(i, Head(s)) : b.what \in PartNames
  BY EntryRemoved, HeldKinds
<1>2. \A w, n : Block(i, w, n).what = w
  BY DEF Block
<1>3. \A w \in what : Block(i, w, 0) \notin aisl_ssl_free(i, Head(s))
  BY <1>1, <1>2 DEF PartNames, Singles
<1>4. \A n \in 1 .. k : Block(i, "server", n) \notin aisl_ssl_free(i, Head(s))
  BY <1>1, <1>2 DEF PartNames
<1> QED
  BY <1>1, <1>3, <1>4 DEF HeldBy

(* The complete instances keep what they own when their entries stay.      *)
LEMMA OthersKept ==
    ASSUME Up' = Up, \A i \in Up : ssl'[i] = ssl[i]
    PROVE  OfComplete' = OfComplete
<1>1. ASSUME NEW i \in Up PROVE Owned(i)' = Owned(i)
  <2>1. ssl'[i] = ssl[i]
    OBVIOUS
  <2> QED
    BY <2>1 DEF Owned
<1> QED
  BY <1>1 DEF OfComplete

-----------------------------------------------------------------------------
(* Each step keeps types, control and entries.                             *)

(* An entry made from a configured pair is an entry. *)
LEMMA EntryTyped ==
    ASSUME NEW c \in [host : Strings, key_file : Strings, crt_file : Strings],
           NEW ctx \in Blocks, NEW n \in Nat \ {0}, NEW k \in Nat
    PROVE  NewEntry(c, ctx, n, k) \in SslEntries
BY DEF NewEntry, aisl_ssl_new, SslEntries

(* The members of a list of entries are entries. *)
LEMMA EntriesTyped ==
    ASSUME NEW s \in Seq(SslEntries), NEW n \in 1 .. Len(s)
    PROVE  IsEntry(s[n])
<1>1. s[n] \in SslEntries
  BY ElementOfSeq
<1> QED
  BY <1>1 DEF SslEntries, IsEntry

(* The pair the loading loop is at, and the number its entry takes. *)
LEMMA CfgTyped ==
    ASSUME TypeOK, EntriesInv, AtEntry
    PROVE  /\ Cfg \in [host : Strings, key_file : Strings, crt_file : Strings]
           /\ NextEntry \in Nat \ {0} /\ NextEntry = Len(ssl[me]) + 1
<1>1. me \in Instances /\ ssl[me] \in Seq(SslEntries) /\ config[me] \in Configs \cup {<<>>}
  BY DEF TypeOK, EntriesInv
<1>2. Len(ssl[me]) \in Nat
  BY <1>1, LenProperties
<1>3. NextEntry \in Nat \ {0} /\ NextEntry <= Len(config[me])
  BY <1>2 DEF NextEntry, AtEntry
<1>4. config[me] \in Seq([host : Strings, key_file : Strings, crt_file : Strings])
  <2>1. config[me] # <<>>
    BY <1>2, <1>3, EmptySeq DEF NextEntry
  <2> QED
    BY <1>1, <2>1, LifecycleAssumption
<1>5. Len(config[me]) \in Nat
  BY <1>4, LenProperties
<1>6. NextEntry \in 1 .. Len(config[me])
  BY <1>3, <1>5
<1> QED
  BY <1>3, <1>4, <1>6, ElementOfSeq DEF Cfg, NextEntry

(* An entry appended with the next number keeps the order of the entries,  *)
(* and their contexts owned, when its own is.                              *)
LEMMA EntryAppended ==
    ASSUME NEW i \in Instances, NEW s \in Seq(SslEntries), NEW e \in SslEntries,
           e.n = Len(s) + 1, Numbered(s), OwnContext(i, s), ContextsOwned(s),
           \A n \in 1 .. Len(s) : s[n].n <= Len(s),
           e.key_file # NULL => e.ctx = Block(i, "ctx", e.n),
           e.key_file = NULL => \E m \in 1 .. Len(s) : s[m].key_file # NULL /\ e.ctx = s[m].ctx
    PROVE  LET t == Append(s, e) IN
           /\ t \in Seq(SslEntries) /\ Numbered(t) /\ OwnContext(i, t) /\ ContextsOwned(t)
           /\ \A n \in 1 .. Len(t) : t[n].n <= Len(t)
<1> DEFINE t == Append(s, e)
<1>1. /\ t \in Seq(SslEntries) /\ Len(t) = Len(s) + 1 /\ Len(s) \in Nat
      /\ \A n \in 1 .. Len(s) : t[n] = s[n]
      /\ t[Len(s) + 1] = e
  BY AppendProperties, LenProperties
<1>2. \A n \in 1 .. Len(s) : s[n].n \in Nat
  <2>1. \A n \in 1 .. Len(s) : s[n] \in SslEntries
    BY ElementOfSeq
  <2> QED
    BY <2>1 DEF SslEntries
<1> HIDE DEF t
<1>3. \A n \in 1 .. Len(t) : n \in 1 .. Len(s) \/ n = Len(s) + 1
  BY <1>1
<1>4. Numbered(t)
  BY <1>1, <1>2, <1>3 DEF Numbered
<1>5. OwnContext(i, t)
  BY <1>1, <1>3 DEF OwnContext
<1>6. \A n \in 1 .. Len(t) : t[n].n <= Len(t)
  BY <1>1, <1>2, <1>3
<1>7. ASSUME NEW n \in 1 .. Len(t)
      PROVE  \E m \in 1 .. Len(t) : t[m].key_file # NULL /\ t[n].ctx = t[m].ctx
  <2>1. CASE n \in 1 .. Len(s)
    <3>1. PICK m \in 1 .. Len(s) : s[m].key_file # NULL /\ s[n].ctx = s[m].ctx
      BY <2>1 DEF ContextsOwned
    <3>2. m \in 1 .. Len(t) /\ t[m] = s[m] /\ t[n] = s[n]
      BY <1>1, <2>1
    <3> QED
      BY <3>1, <3>2
  <2>2. CASE n = Len(s) + 1 /\ e.key_file # NULL
    BY <1>1, <2>2
  <2>3. CASE n = Len(s) + 1 /\ e.key_file = NULL
    <3>1. PICK m \in 1 .. Len(s) : s[m].key_file # NULL /\ e.ctx = s[m].ctx
      BY <2>3
    <3>2. m \in 1 .. Len(t) /\ t[m] = s[m]
      BY <1>1
    <3> QED
      BY <1>1, <2>3, <3>1, <3>2
  <2> QED
    BY <1>3, <2>1, <2>2, <2>3
<1> QED
  BY <1>1, <1>4, <1>5, <1>6, <1>7 DEF t, ContextsOwned

(* What EntryShared and EntryLoaded append is such an entry.               *)
LEMMA EntryStep ==
    ASSUME LifecycleInv, EntryShared \/ EntryLoaded
    PROVE  \E e \in SslEntries :
              /\ ssl' = [ssl EXCEPT ![me] = Append(@, e)]
              /\ e.n = Len(ssl[me]) + 1
              /\ e.key_file # NULL => e.ctx = Block(me, "ctx", e.n)
              /\ e.key_file = NULL => \E m \in 1 .. Len(ssl[me]) :
                    ssl[me][m].key_file # NULL /\ e.ctx = ssl[me][m].ctx
              /\ heap' = heap \cup aisl_ssl_free(me, e)
<1> USE DEF LifecycleInv
<1>1. AtEntry
  BY DEF EntryShared, EntryLoaded
<1>2. /\ me \in Instances
      /\ Cfg \in [host : Strings, key_file : Strings, crt_file : Strings]
      /\ NextEntry \in Nat \ {0} /\ NextEntry = Len(ssl[me]) + 1
  BY <1>1, CfgTyped DEF TypeOK
<1>3. Cfg.host # NULL /\ Cfg.key_file # NULL /\ Cfg.crt_file # NULL
  BY <1>2, LifecycleAssumption
<1>4. CASE EntryShared
  <2> DEFINE ctx == Shared(me, Cfg)
             e == NewEntry(Cfg, ctx, NextEntry, 2)
  <2>1. PICK m \in 1 .. Len(ssl[me]) : ssl[me][m].key_file # NULL /\ ctx = ssl[me][m].ctx
    BY <1>2, <1>3, <1>4, SharedIsOwned DEF EntryShared
  <2>2. ssl[me][m] \in SslEntries
    BY <1>2, ElementOfSeq DEF EntriesInv
  <2>3. ctx \in Blocks
    BY <2>1, <2>2 DEF SslEntries
  <2>4. e \in SslEntries
    BY <1>2, <2>3, EntryTyped
  <2>5. e.n = NextEntry /\ e.key_file = NULL /\ e.crt_file = NULL /\ e.host # NULL /\ e.ctx = ctx
    BY <1>3 DEF NewEntry, aisl_ssl_new
  <2>6. heap' = heap \cup aisl_ssl_free(me, e)
    BY <1>4, <2>5 DEF EntryShared, Allocate, aisl_ssl_free
  <2> QED
    BY <1>2, <1>4, <2>1, <2>4, <2>5, <2>6 DEF EntryShared
<1>5. CASE EntryLoaded
  <2> DEFINE ctx == Block(me, "ctx", NextEntry)
             e == NewEntry(Cfg, ctx, NextEntry, 4)
  <2>1. ctx \in Blocks /\ ctx # NoContext /\ Block(me, "key_file", NextEntry) # NoContext
    BY <1>2 DEF Block, Blocks, Purposes, NoContext
  <2>2. e \in SslEntries
    BY <1>2, <2>1, EntryTyped
  <2>3. e.n = NextEntry /\ e.key_file # NULL /\ e.crt_file # NULL /\ e.host # NULL /\ e.ctx = ctx
    BY <1>3 DEF NewEntry, aisl_ssl_new
  <2>4. aisl_ssl_free(me, e) = {Block(me, "entry", e.n), Block(me, "host", e.n),
                                Block(me, "key_file", e.n), Block(me, "crt_file", e.n), ctx}
    BY <2>1, <2>3 DEF aisl_ssl_free
  <2>5. heap' = heap \cup ({ctx} \cup {Block(me, what, NextEntry) :
                               what \in {"entry", "host", "key_file", "crt_file"}})
    BY <1>5 DEF EntryLoaded, Allocate
  <2>6. heap' = heap \cup aisl_ssl_free(me, e)
    BY <2>3, <2>4, <2>5
  <2> QED
    BY <1>2, <1>5, <2>2, <2>3, <2>6 DEF EntryLoaded
<1> QED
  BY <1>4, <1>5

(* Every step keeps the TLS entries numbered, each with a context of its
   own. *)
LEMMA EntriesStep ==
    ASSUME LifecycleInv, Next
    PROVE  EntriesInv'
<1> USE DEF LifecycleInv
<1>0. /\ me \in Instances /\ DOMAIN ssl = Instances
      /\ \A i \in Instances : ssl[i] \in Seq(SslEntries)
  BY DEF TypeOK, EntriesInv
<1>1. ASSUME NEW i \in Instances, New(i) PROVE EntriesInv'
  <2>1. life' = [life EXCEPT ![i] = "made"] /\ pc' = "srv" /\ ssl' = ssl /\ DOMAIN life = Instances
    BY <1>1 DEF New, Then, TypeOK
  <2>2. \A j \in Instances : life'[j] = "up" => life[j] = "up"
    BY <2>1
  <2> QED
    BY <2>1, <2>2 DEF EntriesInv
<1>2. ASSUME UNCHANGED <<life, ssl>>, pc' # "entry" PROVE EntriesInv'
  BY <1>2 DEF EntriesInv
<1>3. CASE NewServers \/ NewServer \/ Count \/ EntryRefused \/ ReleaseServers
  <2>1. UNCHANGED <<life, ssl>> /\ pc' # "entry"
    BY <1>3 DEF NewServers, NewServer, Count, EntryRefused, ReleaseServers, Fail, Then, At
  <2> QED
    BY <2>1, <1>2
<1>4. CASE NewEntries
  <2>1. CASE pc' = "entry"
    <3>1. ssl' = ssl /\ life' = life /\ me' = me /\ pc = "ssl"
      BY <1>4 DEF NewEntries, At
    <3>2. \A i \in Instances : life[i] = "up" \/ ssl[i] = <<>>
      <4> TAKE i \in Instances
      <4>1. life[i] \in {"none", "made", "up"}
        BY DEF TypeOK
      <4> QED
        BY <3>1, <4>1 DEF ControlInv
    <3>3. \A i \in Instances : ContextsOwned(ssl[i])
      <4> TAKE i \in Instances
      <4>1. CASE life[i] = "up"
        BY <4>1 DEF EntriesInv
      <4>2. CASE ssl[i] = <<>>
        BY <4>2, EmptySeq DEF ContextsOwned
      <4> QED
        BY <3>2, <4>1, <4>2
    <3>4. ssl[me] = <<>> /\ Len(<<>>) = 0
      BY <3>1, EmptySeq DEF ControlInv
    <3>5. \A n \in 1 .. Len(ssl[me]) : FALSE
      BY <3>4
    <3> QED
      BY <3>1, <3>3, <3>5 DEF EntriesInv
  <2>2. CASE pc' # "entry"
    BY <1>2, <1>4, <2>2 DEF NewEntries
  <2> QED
    BY <2>1, <2>2
<1>5. CASE EntryShared \/ EntryLoaded
  <2>1. PICK e \in SslEntries :
              /\ ssl' = [ssl EXCEPT ![me] = Append(@, e)]
              /\ e.n = Len(ssl[me]) + 1
              /\ e.key_file # NULL => e.ctx = Block(me, "ctx", e.n)
              /\ e.key_file = NULL => \E m \in 1 .. Len(ssl[me]) :
                    ssl[me][m].key_file # NULL /\ e.ctx = ssl[me][m].ctx
    BY <1>5, EntryStep
  <2>2. life' = life /\ me' = me /\ pc = "entry" /\ pc' = pc
    BY <1>5 DEF EntryShared, EntryLoaded, AtEntry, At
  <2>3. /\ ssl'[me] = Append(ssl[me], e)
        /\ \A i \in Instances \ {me} : ssl'[i] = ssl[i]
    BY <1>0, <2>1
  <2>4. /\ Numbered(ssl[me]) /\ OwnContext(me, ssl[me]) /\ ContextsOwned(ssl[me])
        /\ \A n \in 1 .. Len(ssl[me]) : ssl[me][n].n <= Len(ssl[me])
    BY <1>0, <2>2 DEF EntriesInv
  <2>5. /\ ssl'[me] \in Seq(SslEntries) /\ Numbered(ssl'[me]) /\ OwnContext(me, ssl'[me])
        /\ ContextsOwned(ssl'[me])
        /\ \A n \in 1 .. Len(ssl'[me]) : ssl'[me][n].n <= Len(ssl'[me])
    <3> HIDE DEF LifecycleInv
    <3> QED
      BY <1>0, <2>1, <2>3, <2>4, EntryAppended
  <2> QED
    BY <2>2, <2>3, <2>5 DEF EntriesInv
<1>6. CASE NewSpool
  <2>1. ssl' = ssl /\ pc = "entry" /\ pc' # "entry"
    BY <1>6 DEF NewSpool, At, Then, Fail
  <2> QED
    BY <2>1 DEF EntriesInv
<1>7. ASSUME NEW i \in Instances, Free(i) PROVE EntriesInv'
  <2>1. life' = [life EXCEPT ![i] = "made"] /\ pc' = "release" /\ ssl' = ssl
        /\ DOMAIN life = Instances
    BY <1>7 DEF Free, Then, TypeOK
  <2>2. \A j \in Instances : life'[j] = "up" => life[j] = "up"
    BY <2>1
  <2> QED
    BY <2>1, <2>2 DEF EntriesInv
<1>8. CASE ReleaseEntry
  <2>1. /\ pc = "release_ssl" /\ pc' = pc /\ life' = life /\ me' = me
        /\ ssl[me] # <<>> /\ ssl' = [ssl EXCEPT ![me] = Tail(ssl[me])]
    BY <1>8 DEF ReleaseEntry, At
  <2>2. Tail(ssl[me]) \in Seq(SslEntries) /\ Numbered(Tail(ssl[me]))
        /\ OwnContext(me, Tail(ssl[me]))
    BY <1>0, <2>1, EntryRemoved DEF EntriesInv
  <2>3. life[me] = "made"
    BY <1>0, <2>1 DEF ControlInv
  <2> QED
    BY <1>0, <2>1, <2>2, <2>3 DEF EntriesInv
<1>9. CASE ReleaseInstance
  <2>1. life' = [life EXCEPT ![me] = "none"] /\ pc' = "app" /\ ssl' = ssl /\ DOMAIN life = Instances
    BY <1>9 DEF ReleaseInstance, Then, TypeOK
  <2>2. \A j \in Instances : life'[j] = "up" => life[j] = "up"
    BY <2>1
  <2> QED
    BY <2>1, <2>2 DEF EntriesInv
<1> QED
  BY <1>1, <1>3, <1>4, <1>5, <1>6, <1>7, <1>8, <1>9 DEF Next, Make, Release

(* Every step keeps the types and the place of the call in hand. *)
LEMMA ControlStep ==
    ASSUME LifecycleInv, Next
    PROVE  TypeOK' /\ ControlInv'
<1> USE DEF LifecycleInv
<1>0. /\ me \in Instances /\ DOMAIN ssl = Instances
      /\ \A i \in Instances : servers[i] \in 0 .. NumServers
      /\ NumServers \in Nat
  BY LifecycleAssumption DEF TypeOK
<1>a. \A i \in Instances : \A n \in 1 .. Len(ssl'[i]) : IsEntry(ssl'[i][n])
  BY EntriesStep, EntriesTyped DEF EntriesInv
<1>b. \A i \in Instances, w \in Purposes, n \in Nat : Block(i, w, n) \in Blocks
  BY DEF Block, Blocks
<1>c. \A w \in {"instance", "srv", "server", "ssl", "spool"} : w \in Purposes
  BY DEF Purposes
<1>1. ASSUME NEW i \in Instances, New(i) PROVE TypeOK' /\ ControlInv'
  <2>1. Block(i, "instance", 0) \in Blocks
    BY <1>b, <1>c
  <2>2. TypeOK'
    BY <1>1, <1>a, <2>1 DEF New, Allocate, Then, TypeOK, Points
  <2>3. ControlInv'
    BY <1>1 DEF New, Then, At, TypeOK, ControlInv
  <2> QED
    BY <2>2, <2>3
<1>2. CASE NewServers
  <2>1. Block(me, "srv", 0) \in Blocks
    BY <1>0, <1>b, <1>c
  <2>2. TypeOK'
    BY <1>2, <1>a, <2>1, LifecycleAssumption DEF NewServers, Allocate, Then, Fail, TypeOK, Points
  <2>3. ControlInv'
    BY <1>2 DEF NewServers, Then, At, Fail, TypeOK, ControlInv
  <2> QED
    BY <2>2, <2>3
<1>3. CASE NewServer
  <2>1. servers[me] + 1 \in 0 .. NumServers => Block(me, "server", servers[me] + 1) \in Blocks
    BY <1>0, <1>b, <1>c
  <2>2. TypeOK'
    BY <1>0, <1>3, <1>a, <2>1, LifecycleAssumption
       DEF NewServer, Allocate, Then, At, Fail, TypeOK, Points
  <2>3. ControlInv'
    BY <1>0, <1>3 DEF NewServer, Then, At, Fail, TypeOK, ControlInv
  <2> QED
    BY <2>2, <2>3
<1>4. CASE Count
  <2>1. (m_instances + 1) % CounterSize \in 0 .. CounterSize - 1
    BY LifecycleAssumption DEF TypeOK
  <2>2. TypeOK'
    BY <1>4, <1>a, <2>1 DEF Count, Then, TypeOK, Points
  <2>3. ControlInv'
    BY <1>0, <1>4 DEF Count, Then, At, TypeOK, ControlInv
  <2> QED
    BY <2>2, <2>3
<1>5. CASE NewEntries
  <2>1. Block(me, "ssl", 0) \in Blocks
    BY <1>0, <1>b, <1>c
  <2>2. TypeOK'
    BY <1>5, <1>a, <2>1 DEF NewEntries, Allocate, Then, Fail, TypeOK, Points
  <2>3. ControlInv'
    BY <1>0, <1>5 DEF NewEntries, Then, At, Fail, TypeOK, ControlInv
  <2> QED
    BY <2>2, <2>3
<1>6. CASE EntryShared \/ EntryLoaded
  <2>1. PICK e \in SslEntries :
              /\ ssl' = [ssl EXCEPT ![me] = Append(@, e)]
              /\ e.key_file # NULL => e.ctx = Block(me, "ctx", e.n)
              /\ heap' = heap \cup aisl_ssl_free(me, e)
    BY <1>6, EntryStep
  <2>2. e.n \in Nat
    BY DEF SslEntries
  <2>3. aisl_ssl_free(me, e) \subseteq Blocks
    BY <1>0, <2>1, <2>2, FreedByEntry DEF Blocks, PartNames, Purposes
  <2>4. pc = "entry" /\ UNCHANGED <<life, config, servers, m_instances, library, pc, me, uncounted>>
    BY <1>6 DEF EntryShared, EntryLoaded, AtEntry, At
  <2>5. \A i \in Instances : i # me => ssl'[i] = ssl[i]
    BY <1>0, <2>1
  <2>6. TypeOK'
    BY <1>a, <2>1, <2>3, <2>4 DEF TypeOK
  <2>7. ControlInv'
    BY <1>0, <2>4, <2>5 DEF ControlInv
  <2> QED
    BY <2>6, <2>7
<1>7. CASE EntryRefused
  <2>1. AtEntry /\ me \in Instances /\ NextEntry \in Nat
    BY <1>7, CfgTyped DEF EntryRefused, TypeOK
  <2>2. heap' \subseteq Blocks
    <3>1. \A j \in 1 .. 4 : Parts[j] \in Purposes
      BY DEF Parts, Purposes
    <3>2. \A k \in 0 .. 4 : {Block(me, Parts[j], NextEntry) : j \in 1 .. k} \subseteq Blocks
      BY <1>b, <2>1, <3>1
    <3>3. \E k \in 0 .. 4 : heap' \subseteq heap \cup {Block(me, Parts[j], NextEntry) : j \in 1 .. k}
      BY <1>7 DEF EntryRefused
    <3> QED
      BY <3>2, <3>3 DEF TypeOK
  <2>3. /\ pc = "entry" /\ pc' = "release"
        /\ UNCHANGED <<life, config, servers, ssl, m_instances, library, me, uncounted>>
    BY <1>7 DEF EntryRefused, AtEntry, At, Then
  <2>4. TypeOK'
    BY <1>a, <2>2, <2>3 DEF TypeOK, Points
  <2>5. ControlInv'
    BY <2>3 DEF ControlInv
  <2> QED
    BY <2>4, <2>5
<1>8. CASE NewSpool
  <2>1. Block(me, "spool", 0) \in Blocks
    BY <1>0, <1>b, <1>c
  <2>2. TypeOK'
    BY <1>8, <1>a, <2>1 DEF NewSpool, Allocate, Then, Fail, TypeOK, Points
  <2>3. ControlInv'
    BY <1>0, <1>8 DEF NewSpool, Then, At, Fail, TypeOK, ControlInv
  <2> QED
    BY <2>2, <2>3
<1>9. ASSUME NEW i \in Instances, Free(i) PROVE TypeOK' /\ ControlInv'
  <2>1. TypeOK'
    BY <1>9, <1>a DEF Free, Then, TypeOK, Points
  <2>2. ControlInv'
    BY <1>9 DEF Free, Then, At, TypeOK, ControlInv
  <2> QED
    BY <2>1, <2>2
<1>10. CASE ReleaseServers
  <2>1. heap' \subseteq heap
    BY <1>10 DEF ReleaseServers
  <2>2. TypeOK'
    BY <1>0, <1>10, <1>a, <2>1 DEF ReleaseServers, Then, TypeOK, Points
  <2>3. ControlInv'
    BY <1>0, <1>10 DEF ReleaseServers, Then, At, TypeOK, ControlInv
  <2> QED
    BY <2>2, <2>3
<1>11. CASE ReleaseEntry
  <2>1. /\ pc = "release_ssl" /\ UNCHANGED <<life, config, servers, m_instances, library, pc, me, uncounted>>
        /\ heap' \subseteq heap /\ ssl' = [ssl EXCEPT ![me] = Tail(ssl[me])]
    BY <1>11 DEF ReleaseEntry, At
  <2>2. TypeOK'
    BY <1>a, <2>1 DEF TypeOK
  <2>3. ControlInv'
    BY <1>0, <2>1 DEF ControlInv
  <2> QED
    BY <2>2, <2>3
<1>12. CASE ReleaseInstance
  <2>1. (m_instances - 1) % CounterSize \in 0 .. CounterSize - 1
    BY LifecycleAssumption DEF TypeOK
  <2>2. TypeOK'
    BY <1>12, <1>a, <2>1 DEF ReleaseInstance, Uncount, Then, TypeOK, Points
  <2>3. ControlInv'
    BY <1>0, <1>12 DEF ReleaseInstance, Uncount, Then, At, TypeOK, ControlInv
  <2> QED
    BY <2>2, <2>3
<1> QED
  BY <1>1, <1>2, <1>3, <1>4, <1>5, <1>6, <1>7, <1>8, <1>9, <1>10, <1>11, <1>12
     DEF Next, Make, Release

(* An entry that is refused was not in the heap, and all of it is freed.   *)
LEMMA RefusedIsFreed ==
    ASSUME LifecycleInv, EntryRefused
    PROVE  heap' = heap
<1> USE DEF LifecycleInv
<1>1. /\ AtEntry /\ pc = "entry" /\ me \in Instances
      /\ Cfg \in [host : Strings, key_file : Strings, crt_file : Strings]
      /\ NextEntry \in Nat \ {0} /\ NextEntry = Len(ssl[me]) + 1
  BY CfgTyped DEF EntryRefused, AtEntry, At, TypeOK
<1>2. Cfg.host # NULL /\ Cfg.key_file # NULL /\ Cfg.crt_file # NULL
  BY <1>1, LifecycleAssumption
<1> DEFINE e(k) == NewEntry(Cfg, NoContext, NextEntry, k)
           got(k) == {Block(me, Parts[j], NextEntry) : j \in 1 .. k}
           freed(k) == IF k = 0 THEN {} ELSE aisl_ssl_free(me, e(k))
<1>3. PICK k \in 0 .. 4 : heap' = (heap \cup got(k)) \ freed(k)
  BY <1>1 DEF EntryRefused
<1>4. got(k) \subseteq freed(k)
  <2>1. ASSUME NEW j \in 1 .. k PROVE Block(me, Parts[j], NextEntry) \in freed(k)
    <3>1. Block(me, Parts[j], NextEntry) # NoContext
      BY <1>1 DEF Block, NoContext
    <3>2. j \in {1, 2, 3, 4} /\ k \in {1, 2, 3, 4}
      OBVIOUS
    <3>3. /\ e(k).n = NextEntry
          /\ k >= 2 => e(k).host # NULL
          /\ k >= 3 => e(k).key_file # NULL
          /\ k >= 4 => e(k).crt_file # NULL
      BY <1>2, <3>2 DEF NewEntry, aisl_ssl_new
    <3> HIDE DEF e
    <3>4. CASE j = 1
      BY <3>2, <3>3, <3>4 DEF aisl_ssl_free, Parts
    <3>5. CASE j = 2
      BY <3>2, <3>3, <3>5 DEF aisl_ssl_free, Parts
    <3>6. CASE j = 3
      BY <3>1, <3>2, <3>3, <3>6 DEF aisl_ssl_free, Parts
    <3>7. CASE j = 4
      BY <3>2, <3>3, <3>7 DEF aisl_ssl_free, Parts
    <3> QED
      BY <3>2, <3>4, <3>5, <3>6, <3>7
  <2> QED
    BY <2>1
<1>5. \A b \in freed(k) : b.of = me /\ b.what \in PartNames /\ b.n = NextEntry
  <2>1. e(k).n = NextEntry /\ e(k).ctx = NoContext
    BY DEF NewEntry, aisl_ssl_new
  <2> HIDE DEF e
  <2>2. aisl_ssl_free(me, e(k)) \subseteq {Block(me, w, NextEntry) : w \in PartNames}
    BY <2>1 DEF aisl_ssl_free, PartNames
  <2>3. \A w : /\ Block(me, w, NextEntry).of = me /\ Block(me, w, NextEntry).what = w
               /\ Block(me, w, NextEntry).n = NextEntry
    BY DEF Block
  <2> QED
    BY <2>2, <2>3
<1> HIDE DEF got, freed
<1>6. freed(k) \cap heap = {}
  <2>1. PICK what \in Single("entry") : heap = OfComplete \cup Held(what)
    BY <1>1 DEF HeapInv
  <2>2. what \in SUBSET Singles
    BY SingleBlocks
  <2>3. me \notin Up
    BY <1>1 DEF ControlInv, Up
  <2>4. \A b \in OfComplete : b.of # me
    BY <2>3, OfOthers
  <2>5. OwnContext(me, ssl[me]) /\ ssl[me] \in Seq(SslEntries) /\ servers[me] \in Nat
    BY <1>1, LifecycleAssumption DEF EntriesInv, TypeOK
  <2>6. ASSUME NEW b \in Held(what), b.what \in PartNames
        PROVE  b.n # NextEntry
    <3>1. b \in OfEntries(me, ssl[me])
      <4>1. /\ \A w \in what : Block(me, w, 0).what \in Singles
            /\ \A n \in 1 .. servers[me] : Block(me, "server", n).what = "server"
        BY <1>1, <2>2, <2>5, HeldKinds
      <4>2. b \notin {Block(me, w, 0) : w \in what}
        BY <2>6, <4>1 DEF Singles, PartNames
      <4>3. b \notin {Block(me, "server", n) : n \in 1 .. servers[me]}
        BY <2>6, <4>1 DEF PartNames
      <4> QED
        BY <2>6, <4>2, <4>3 DEF Held, HeldBy
    <3>2. PICK n \in 1 .. Len(ssl[me]) : b.n = ssl[me][n].n
      BY <1>1, <2>5, <3>1, FreedByEntries
    <3>3. b.n <= Len(ssl[me])
      BY <1>1, <3>2 DEF EntriesInv
    <3> QED
      BY <1>1, <2>5, <3>3, LenProperties
  <2> QED
    BY <1>5, <2>1, <2>4, <2>6
<1> QED
  BY <1>3, <1>4, <1>6

(* Each step does to the heap what it does to the instance in hand.        *)
LEMMA HeapStep ==
    ASSUME LifecycleInv, Next
    PROVE  HeapInv'
<1> USE DEF LifecycleInv
<1>0. /\ me \in Instances /\ DOMAIN ssl = Instances /\ DOMAIN servers = Instances
      /\ DOMAIN life = Instances
      /\ \A i \in Instances : ssl[i] \in Seq(SslEntries) /\ servers[i] \in Nat /\ OwnContext(i, ssl[i])
      /\ <<>> \in Seq(SslEntries)
  BY LifecycleAssumption, EmptySeq DEF TypeOK, EntriesInv
<1>a. pc # "app" => me \notin Up
  BY <1>0 DEF ControlInv, Up
<1>b. ASSUME pc # "app", Up' = Up, \A i \in Instances \ {me} : ssl'[i] = ssl[i]
      PROVE  OfComplete' = OfComplete
  <2>1. \A i \in Up : ssl'[i] = ssl[i]
    BY <1>a, <1>b DEF Up
  <2> QED
    BY <1>b, <2>1, OthersKept
<1>c. ASSUME UNCHANGED <<life, ssl>> PROVE OfComplete' = OfComplete
  BY <1>c, OthersKept DEF Up
<1>1. ASSUME NEW i \in Instances, New(i) PROVE HeapInv'
  <2>1. /\ heap = OfComplete /\ heap' = heap \cup {Block(i, "instance", 0)}
        /\ me' = i /\ pc' = "srv" /\ ssl' = ssl /\ servers' = servers
        /\ servers[i] = 0 /\ ssl[i] = <<>>
    BY <1>1 DEF New, At, Then, Allocate, HeapInv, ControlInv
  <2>2. Up' = Up
    BY <1>0, <1>1 DEF New, Up
  <2>3. OfComplete' = OfComplete
    BY <2>1, <2>2, OthersKept
  <2>4. HeldBy(i, {"instance"}, 0, <<>>) = {Block(i, "instance", 0)}
    BY <1>0, HeldAlone
  <2>5. heap' = OfComplete' \cup Held({"instance"})'
    BY <2>1, <2>3, <2>4 DEF Held
  <2> QED
    BY <2>1, <2>5 DEF HeapInv, Single
<1>2. CASE NewServers
  <2>1. /\ heap = OfComplete \cup Held({"instance"})
        /\ UNCHANGED <<life, ssl, servers, me>> /\ pc = "srv"
    BY <1>2 DEF NewServers, At, HeapInv, Single
  <2>2. OfComplete' = OfComplete
    BY <1>c, <2>1
  <2>3. CASE heap' = heap \cup {Block(me, "srv", 0)} /\ pc' = "server"
    <3>1. Held({"instance", "srv"}) = Held({"instance"}) \cup {Block(me, "srv", 0)}
      <4> DEFINE what == {"instance"}
                 more == {"instance", "srv"}
      <4>1. \A x : x \in more <=> x \in what \/ x = "srv"
        OBVIOUS
      <4> HIDE DEF what, more
      <4>2. \A b : b \in Held(more) <=> b \in Held(what) \/ b = Block(me, "srv", 0)
        BY <1>0, <4>1, SingleAdded DEF Held
      <4> QED
        BY <4>2 DEF what, more
    <3>2. heap' = OfComplete' \cup Held({"instance", "srv"})'
      BY <2>1, <2>2, <2>3, <3>1 DEF Held
    <3> QED
      BY <2>3, <3>2 DEF HeapInv, Single
  <2>4. CASE heap' = heap /\ pc' = "release"
    <3>1. heap' = OfComplete' \cup Held({"instance"})'
      BY <2>1, <2>2, <2>4 DEF Held
    <3>2. {"instance"} \in Single("release")
      <4>1. {"instance"} = {} \cup {"instance"} /\ {} \in SUBSET {"srv", "ssl", "spool"}
        OBVIOUS
      <4> QED
        BY <4>1 DEF Single
    <3> QED
      BY <2>4, <3>1, <3>2 DEF HeapInv
  <2> QED
    BY <1>2, <2>3, <2>4 DEF NewServers, Allocate, Then, Fail
<1>3. CASE NewServer
  <2>1. /\ heap = OfComplete \cup Held({"instance", "srv"})
        /\ UNCHANGED <<life, ssl, me>> /\ pc = "server"
    BY <1>3 DEF NewServer, At, HeapInv, Single
  <2>2. OfComplete' = OfComplete
    BY <1>c, <2>1
  <2>3. CASE /\ heap' = heap \cup {Block(me, "server", servers[me] + 1)} /\ pc' = pc
             /\ servers' = [servers EXCEPT ![me] = servers[me] + 1]
    <3>1. servers'[me] = servers[me] + 1
      BY <1>0, <2>3
    <3>2. Held({"instance", "srv"})' = Held({"instance", "srv"}) \cup {Block(me, "server", servers[me] + 1)}
      BY <1>0, <2>1, <3>1, ServerAdded DEF Held
    <3> QED
      BY <2>1, <2>2, <2>3, <3>2 DEF HeapInv, Single
  <2>4. CASE heap' = heap /\ pc' = "release" /\ servers' = servers
    <3>1. heap' = OfComplete' \cup Held({"instance", "srv"})'
      BY <2>1, <2>2, <2>4 DEF Held
    <3>2. {"instance", "srv"} \in Single("release")
      <4>1. {"instance", "srv"} = {"srv"} \cup {"instance"} /\ {"srv"} \in SUBSET {"srv", "ssl", "spool"}
        OBVIOUS
      <4> QED
        BY <4>1 DEF Single
    <3> QED
      BY <2>4, <3>1, <3>2 DEF HeapInv
  <2> QED
    BY <1>3, <2>3, <2>4 DEF NewServer, Allocate, Then, Fail
<1>4. CASE Count
  <2>1. /\ heap = OfComplete \cup Held({"instance", "srv"}) /\ heap' = heap
        /\ UNCHANGED <<life, ssl, me, servers>> /\ pc = "server" /\ pc' = "ssl"
    BY <1>4 DEF Count, At, Then, HeapInv, Single
  <2>2. OfComplete' = OfComplete
    BY <1>c, <2>1
  <2>3. heap' = OfComplete' \cup Held({"instance", "srv"})'
    BY <2>1, <2>2 DEF Held
  <2> QED
    BY <2>1, <2>3 DEF HeapInv, Single
<1>5. CASE NewEntries
  <2>1. /\ heap = OfComplete \cup Held({"instance", "srv"})
        /\ UNCHANGED <<life, ssl, servers, me>> /\ pc = "ssl"
    BY <1>5 DEF NewEntries, At, HeapInv, Single
  <2>2. OfComplete' = OfComplete
    BY <1>c, <2>1
  <2>3. CASE heap' = heap \cup {Block(me, "ssl", 0)} /\ pc' = "entry"
    <3>1. Held({"instance", "srv", "ssl"}) = Held({"instance", "srv"}) \cup {Block(me, "ssl", 0)}
      <4> DEFINE what == {"instance", "srv"}
                 more == {"instance", "srv", "ssl"}
      <4>1. \A x : x \in more <=> x \in what \/ x = "ssl"
        OBVIOUS
      <4> HIDE DEF what, more
      <4>2. \A b : b \in Held(more) <=> b \in Held(what) \/ b = Block(me, "ssl", 0)
        BY <1>0, <4>1, SingleAdded DEF Held
      <4> QED
        BY <4>2 DEF what, more
    <3>2. heap' = OfComplete' \cup Held({"instance", "srv", "ssl"})'
      BY <2>1, <2>2, <2>3, <3>1 DEF Held
    <3> QED
      BY <2>3, <3>2 DEF HeapInv, Single
  <2>4. CASE heap' = heap /\ pc' = "release"
    <3>1. heap' = OfComplete' \cup Held({"instance", "srv"})'
      BY <2>1, <2>2, <2>4 DEF Held
    <3>2. {"instance", "srv"} \in Single("release")
      <4>1. {"instance", "srv"} = {"srv"} \cup {"instance"} /\ {"srv"} \in SUBSET {"srv", "ssl", "spool"}
        OBVIOUS
      <4> QED
        BY <4>1 DEF Single
    <3> QED
      BY <2>4, <3>1, <3>2 DEF HeapInv
  <2> QED
    BY <1>5, <2>3, <2>4 DEF NewEntries, Allocate, Then, Fail
<1>6. CASE EntryShared \/ EntryLoaded
  <2>1. PICK e \in SslEntries :
              /\ ssl' = [ssl EXCEPT ![me] = Append(@, e)]
              /\ heap' = heap \cup aisl_ssl_free(me, e)
    BY <1>6, EntryStep
  <2>2. pc = "entry" /\ UNCHANGED <<life, servers, pc, me>>
    BY <1>6 DEF EntryShared, EntryLoaded, AtEntry, At
  <2>3. heap = OfComplete \cup Held({"instance", "srv", "ssl"})
    BY <2>2 DEF HeapInv, Single
  <2>4. OfComplete' = OfComplete
    <3>1. Up' = Up /\ \A i \in Instances \ {me} : ssl'[i] = ssl[i]
      BY <1>0, <2>1, <2>2 DEF Up
    <3> QED
      BY <1>b, <2>2, <3>1
  <2>5. ssl'[me] = Append(ssl[me], e)
    BY <1>0, <2>1
  <2>6. Held({"instance", "srv", "ssl"})' = Held({"instance", "srv", "ssl"}) \cup aisl_ssl_free(me, e)
    <3>1. servers[me] \in Nat /\ ssl[me] \in Seq(SslEntries)
      BY <1>0
    <3>2. HeldBy(me, {"instance", "srv", "ssl"}, servers[me], Append(ssl[me], e))
          = HeldBy(me, {"instance", "srv", "ssl"}, servers[me], ssl[me]) \cup aisl_ssl_free(me, e)
      BY <1>0, <3>1, HeldEntryAdded
    <3> QED
      BY <2>2, <2>5, <3>2 DEF Held
  <2> QED
    BY <2>1, <2>2, <2>3, <2>4, <2>6 DEF HeapInv, Single
<1>7. CASE EntryRefused
  <2>1. /\ pc = "entry" /\ pc' = "release" /\ UNCHANGED <<life, ssl, servers, me>>
    BY <1>7 DEF EntryRefused, AtEntry, At, Then
  <2>2. heap' = heap /\ heap = OfComplete \cup Held({"instance", "srv", "ssl"})
    BY <1>7, <2>1, RefusedIsFreed DEF HeapInv, Single
  <2>3. OfComplete' = OfComplete
    BY <1>c, <2>1
  <2>4. heap' = OfComplete' \cup Held({"instance", "srv", "ssl"})'
    BY <2>1, <2>2, <2>3 DEF Held
  <2>5. {"instance", "srv", "ssl"} \in Single("release")
    <3>1. /\ {"instance", "srv", "ssl"} = {"srv", "ssl"} \cup {"instance"}
          /\ {"srv", "ssl"} \in SUBSET {"srv", "ssl", "spool"}
      OBVIOUS
    <3> QED
      BY <3>1 DEF Single
  <2> QED
    BY <2>1, <2>4, <2>5 DEF HeapInv
<1>8. CASE NewSpool
  <2>1. /\ heap = OfComplete \cup Held({"instance", "srv", "ssl"})
        /\ UNCHANGED <<ssl, servers, me>> /\ pc = "entry"
    BY <1>8 DEF NewSpool, At, HeapInv, Single
  <2>2. CASE heap' = heap \cup {Block(me, "spool", 0)} /\ life' = [life EXCEPT ![me] = "up"] /\ pc' = "app"
    <3>1. Up' = Up \cup {me}
      BY <1>0, <2>2 DEF Up
    <3>2. \A i \in Instances : Owned(i)' = Owned(i)
      BY <2>1 DEF Owned
    <3>3. OfComplete' = OfComplete \cup Owned(me)
      <4>1. OfComplete' = UNION {Owned(i)' : i \in Up'}
        BY DEF OfComplete
      <4>2. UNION {Owned(i)' : i \in Up'} = UNION {Owned(i) : i \in Up \cup {me}}
        BY <1>0, <3>1, <3>2 DEF Up
      <4> QED
        BY <4>1, <4>2 DEF OfComplete
    <3>4. servers[me] = NumServers
      BY <2>1 DEF ControlInv
    <3>5. Owned(me) = Held({"instance", "srv", "ssl"}) \cup {Block(me, "spool", 0)}
      <4> DEFINE what == {"instance", "srv", "ssl"}
      <4>1. \A x : x \in Singles <=> x \in what \/ x = "spool"
        BY DEF Singles
      <4> HIDE DEF what
      <4>2. \A b : b \in Held(Singles) <=> b \in Held(what) \/ b = Block(me, "spool", 0)
        BY <1>0, <4>1, SingleAdded DEF Held
      <4>3. Owned(me) = Held(Singles)
        BY <1>0, <3>4, OwnedIsHeld DEF Held
      <4> QED
        BY <4>2, <4>3 DEF what
    <3> QED
      BY <2>1, <2>2, <3>3, <3>5 DEF HeapInv
  <2>3. CASE heap' = heap /\ pc' = "release" /\ life' = life
    <3>1. OfComplete' = OfComplete
      BY <1>c, <2>1, <2>3
    <3>2. heap' = OfComplete' \cup Held({"instance", "srv", "ssl"})'
      BY <2>1, <2>3, <3>1 DEF Held
    <3>3. {"instance", "srv", "ssl"} \in Single("release")
      <4>1. /\ {"instance", "srv", "ssl"} = {"srv", "ssl"} \cup {"instance"}
            /\ {"srv", "ssl"} \in SUBSET {"srv", "ssl", "spool"}
        OBVIOUS
      <4> QED
        BY <4>1 DEF Single
    <3> QED
      BY <2>3, <3>2, <3>3 DEF HeapInv
  <2> QED
    BY <1>8, <2>2, <2>3 DEF NewSpool, Allocate, Then, Fail
<1>9. ASSUME NEW i \in Instances, Free(i) PROVE HeapInv'
  <2>1. /\ heap = OfComplete /\ heap' = heap /\ me' = i /\ pc' = "release"
        /\ UNCHANGED <<ssl, servers>> /\ life[i] = "up" /\ life' = [life EXCEPT ![i] = "made"]
    BY <1>9 DEF Free, At, Then, HeapInv
  <2>2. Up' = Up \ {i} /\ i \in Up /\ servers[i] = NumServers
    BY <1>0, <2>1 DEF Up, ControlInv
  <2>3. \A j \in Instances : Owned(j)' = Owned(j)
    BY <2>1 DEF Owned
  <2>4. OfComplete = OfComplete' \cup Owned(i)
    <3>1. OfComplete' = UNION {Owned(j)' : j \in Up'}
      BY DEF OfComplete
    <3>2. UNION {Owned(j)' : j \in Up'} = UNION {Owned(j) : j \in Up \ {i}}
      BY <2>2, <2>3 DEF Up
    <3>3. OfComplete = (UNION {Owned(j) : j \in Up \ {i}}) \cup Owned(i)
      BY <2>2 DEF OfComplete
    <3> QED
      BY <3>1, <3>2, <3>3
  <2>5. Owned(i) = Held(Singles)'
    BY <2>1, <2>2, OwnedIsHeld DEF Held
  <2>6. Singles \in Single("release")
    <3>1. Singles = {"srv", "ssl", "spool"} \cup {"instance"}
      BY DEF Singles
    <3> QED
      BY <3>1 DEF Single
  <2> QED
    BY <2>1, <2>4, <2>5, <2>6 DEF HeapInv
<1>10. CASE ReleaseServers
  <2>1. /\ pc = "release" /\ pc' = "release_ssl" /\ UNCHANGED <<life, ssl, me>>
        /\ servers' = [servers EXCEPT ![me] = 0]
        /\ heap' = heap \ ({Block(me, "srv", 0), Block(me, "spool", 0)}
                           \cup {Block(me, "server", n) : n \in 1 .. servers[me]})
    BY <1>10 DEF ReleaseServers, At, Then
  <2>2. PICK what \in Single("release") : heap = OfComplete \cup Held(what)
    BY <2>1 DEF HeapInv
  <2>3. what \in SUBSET Singles
    BY SingleBlocks
  <2>4. OfComplete' = OfComplete /\ servers'[me] = 0
    BY <1>0, <1>c, <2>1
  <2>5. \A b \in OfComplete : b.of # me
    BY <1>a, <2>1, OfOthers
  <2>6. \A w, n : Block(me, w, n).of = me
    BY DEF Block
  <2>7. heap' = OfComplete \cup (Held(what) \
                  ({Block(me, "srv", 0), Block(me, "spool", 0)}
                   \cup {Block(me, "server", n) : n \in 1 .. servers[me]}))
    BY <2>1, <2>2, <2>5, <2>6
  <2>8. heap' = OfComplete' \cup Held(what \ {"srv", "spool"})'
    <3> DEFINE rest == what \ {"srv", "spool"}
    <3>1. \A w : w \in rest <=> w \in what /\ w # "srv" /\ w # "spool"
      OBVIOUS
    <3> HIDE DEF rest
    <3>2. \A b : b \in HeldBy(me, rest, 0, ssl[me]) <=>
                     /\ b \in HeldBy(me, what, servers[me], ssl[me])
                     /\ b # Block(me, "srv", 0) /\ b # Block(me, "spool", 0)
                     /\ \A n \in 1 .. servers[me] : b # Block(me, "server", n)
      BY <1>0, <2>3, <3>1, ServersFreed
    <3>3. Held(rest)' = HeldBy(me, rest, 0, ssl[me]) /\ Held(what) = HeldBy(me, what, servers[me], ssl[me])
      BY <2>1, <2>4 DEF Held
    <3>4. heap' = OfComplete' \cup Held(rest)'
      BY <2>4, <2>7, <3>2, <3>3
    <3> QED
      BY <3>4 DEF rest
  <2>9. what \ {"srv", "spool"} \in Single("release_ssl")
    <3>1. what \ {"srv", "spool"} = {"instance"} \/ what \ {"srv", "spool"} = {"instance", "ssl"}
      <4>1. PICK w \in SUBSET {"srv", "ssl", "spool"} : what = w \cup {"instance"}
        BY DEF Single
      <4>2. CASE "ssl" \in w
        BY <4>1, <4>2
      <4>3. CASE "ssl" \notin w
        BY <4>1, <4>3
      <4> QED
        BY <4>2, <4>3
    <3> QED
      BY <3>1 DEF Single
  <2> QED
    BY <2>1, <2>8, <2>9 DEF HeapInv
<1>11. CASE ReleaseEntry
  <2>1. /\ pc = "release_ssl" /\ pc' = pc /\ UNCHANGED <<life, servers, me>> /\ ssl[me] # <<>>
        /\ ssl' = [ssl EXCEPT ![me] = Tail(ssl[me])]
        /\ heap' = heap \ aisl_ssl_free(me, Head(ssl[me]))
    BY <1>11 DEF ReleaseEntry, At
  <2>2. PICK what \in Single("release_ssl") : heap = OfComplete \cup Held(what)
    BY <2>1 DEF HeapInv
  <2>3. what \in SUBSET Singles
    BY SingleBlocks
  <2>4. OfComplete' = OfComplete /\ ssl'[me] = Tail(ssl[me])
    <3>1. Up' = Up /\ \A i \in Instances \ {me} : ssl'[i] = ssl[i]
      BY <1>0, <2>1 DEF Up
    <3> QED
      BY <1>0, <1>b, <2>1, <3>1
  <2>5. \A b \in OfComplete : b.of # me
    BY <1>a, <2>1, OfOthers
  <2>6. Numbered(ssl[me])
    BY <1>0 DEF EntriesInv
  <2>7. \A b \in aisl_ssl_free(me, Head(ssl[me])) : b.of = me
    BY <1>0, <2>1, <2>6, EntryRemoved, FreedByEntries
  <2>8. heap' = OfComplete \cup (Held(what) \ aisl_ssl_free(me, Head(ssl[me])))
    BY <2>1, <2>2, <2>5, <2>7
  <2>9. heap' = OfComplete' \cup Held(what)'
    BY <1>0, <2>1, <2>3, <2>4, <2>6, <2>8, EntryFreed DEF Held
  <2> QED
    BY <2>1, <2>9 DEF HeapInv
<1>12. CASE ReleaseInstance
  <2>1. /\ pc = "release_ssl" /\ pc' = "app" /\ ssl[me] = <<>> /\ ssl' = ssl /\ servers[me] = 0
        /\ life' = [life EXCEPT ![me] = "none"] /\ life[me] = "made"
        /\ heap' = heap \ {Block(me, "ssl", 0), Block(me, "instance", 0)}
    BY <1>0, <1>12 DEF ReleaseInstance, At, Then, ControlInv
  <2>2. PICK what \in Single("release_ssl") : heap = OfComplete \cup Held(what)
    BY <2>1 DEF HeapInv
  <2>3. Held(what) = {Block(me, w, 0) : w \in what}
    BY <1>0, <2>1, HeldAlone DEF Held
  <2>4. Held(what) \subseteq {Block(me, "ssl", 0), Block(me, "instance", 0)}
    BY <2>3 DEF Single
  <2>5. \A b \in OfComplete : b.of # me
    BY <1>a, <2>1, OfOthers
  <2>6. \A w, n : Block(me, w, n).of = me
    BY DEF Block
  <2>7. heap' = OfComplete
    BY <2>1, <2>2, <2>4, <2>5, <2>6
  <2>8. Up' = Up
    BY <1>0, <2>1 DEF Up
  <2>9. OfComplete' = OfComplete
    BY <2>1, <2>8, OthersKept
  <2> QED
    BY <2>1, <2>7, <2>9 DEF HeapInv
<1> QED
  BY <1>1, <1>2, <1>3, <1>4, <1>5, <1>6, <1>7, <1>8, <1>9, <1>10, <1>11, <1>12
     DEF Next, Make, Release

(* The heap is exactly what the instances own, in every reachable state. *)
LEMMA LifecycleInvariant == Spec => []LifecycleInv
<1>1. Init => LifecycleInv
  <2> SUFFICES ASSUME Init PROVE LifecycleInv
    OBVIOUS
  <2>1. \A i \in Instances : ssl[i] = <<>>
    BY DEF Init
  <2>2. <<>> \in Seq(SslEntries) /\ Len(<<>>) = 0
    BY EmptySeq
  <2>3. TypeOK
    <3>1. /\ 0 \in 0 .. NumServers /\ 0 \in 0 .. CounterSize - 1 /\ 0 \in 0 .. MaxFailures
          /\ 1 .. 0 = {}
      BY LifecycleAssumption
    <3>2. \A i \in Instances : \A n \in 1 .. Len(ssl[i]) : IsEntry(ssl[i][n])
      BY <2>1, <2>2, <3>1
    <3> QED
      BY <3>1, <3>2 DEF Init, TypeOK, Points
  <2>4. ControlInv
    BY DEF Init, ControlInv
  <2>5. EntriesInv
    BY <2>1, <2>2 DEF Init, EntriesInv, Numbered, OwnContext, ContextsOwned
  <2>6. HeapInv
    <3>1. Up = {}
      BY DEF Init, Up
    <3> QED
      BY <3>1 DEF Init, HeapInv, OfComplete
  <2> QED
    BY <2>3, <2>4, <2>5, <2>6 DEF LifecycleInv
<1>2. LifecycleInv /\ [Next]_vars => LifecycleInv'
  <2>1. CASE Next
    BY <2>1, ControlStep, EntriesStep, HeapStep DEF LifecycleInv
  <2>2. CASE UNCHANGED vars
    <3> SUFFICES ASSUME LifecycleInv PROVE LifecycleInv'
      OBVIOUS
    <3>1. TypeOK' /\ ControlInv' /\ EntriesInv'
      BY <2>2 DEF vars, LifecycleInv, TypeOK, ControlInv, EntriesInv
    <3>2. OfComplete' = OfComplete /\ \A what : Held(what)' = Held(what)
      BY <2>2, OthersKept DEF vars, Up, Held
    <3>3. HeapInv'
      BY <2>2, <3>2 DEF vars, LifecycleInv, HeapInv
    <3> QED
      BY <3>1, <3>3 DEF LifecycleInv
  <2> QED
    BY <2>1, <2>2
<1> QED
  BY <1>1, <1>2, PTL DEF Spec

-----------------------------------------------------------------------------
(* Theorems about what is allocated.                                       *)

(* The variables have their types, for any configurations and any width of *)
(* the counter.                                                            *)
THEOREM TypeCorrect == Spec => []TypeOK
<1>1. LifecycleInv => TypeOK
  BY DEF LifecycleInv
<1> QED
  BY <1>1, LifecycleInvariant, PTL

(* aisl_new, whichever of its steps fails, and aisl_free leave exactly the *)
(* blocks of the complete instances allocated.                             *)
THEOREM NoLeak == Spec => []NothingLeaked
<1>1. LifecycleInv => NothingLeaked
  BY DEF LifecycleInv, HeapInv, NothingLeaked, OfComplete
<1> QED
  BY <1>1, LifecycleInvariant, PTL

(* aisl_ssl_free frees only what is allocated, though entries share        *)
(* contexts.                                                               *)
THEOREM NoDoubleFree == Spec => []FreedOnce
<1>1. LifecycleInv => FreedOnce
  <2> SUFFICES ASSUME LifecycleInv, pc = "release_ssl", ssl[me] # <<>>
               PROVE  aisl_ssl_free(me, Head(ssl[me])) \subseteq heap
    BY DEF FreedOnce
  <2>1. me \in Instances /\ ssl[me] \in Seq(SslEntries) /\ Numbered(ssl[me]) /\ OwnContext(me, ssl[me])
    BY DEF LifecycleInv, TypeOK, EntriesInv
  <2>2. aisl_ssl_free(me, Head(ssl[me])) \subseteq OfEntries(me, ssl[me])
    BY <2>1, EntryRemoved
  <2>3. \E what : heap = OfComplete \cup Held(what)
    BY DEF LifecycleInv, HeapInv
  <2> QED
    BY <2>2, <2>3 DEF Held, HeldBy
<1> QED
  BY <1>1, LifecycleInvariant, PTL

(* The context that a handshake finds in a complete instance is allocated, *)
(* while other instances are made and freed.                               *)
THEOREM ContextsStay == Spec => []ContextsLive
<1>1. LifecycleInv => ContextsLive
  <2> SUFFICES ASSUME LifecycleInv, NEW i \in Up, NEW host \in Strings,
                      aisl_get_ssl_ctx(i, host) # NoContext
               PROVE  aisl_get_ssl_ctx(i, host) \in heap
    BY DEF ContextsLive
  <2> DEFINE named == {n \in 1 .. Len(ssl[i]) : ssl[i][n].host = host}
             n == CHOOSE n \in named : \A m \in named : n <= m
  <2>1. named # {} /\ aisl_get_ssl_ctx(i, host) = ssl[i][n].ctx
    BY DEF aisl_get_ssl_ctx
  <2>2. named \in SUBSET Nat
    OBVIOUS
  <2>3. n \in named
    BY <2>1, <2>2, Least
  <2> HIDE DEF n
  <2>4. /\ i \in Instances /\ ssl[i] \in Seq(SslEntries) /\ OwnContext(i, ssl[i])
        /\ ContextsOwned(ssl[i])
    BY DEF LifecycleInv, EntriesInv, Up
  <2>5. PICK m \in 1 .. Len(ssl[i]) : ssl[i][m].key_file # NULL /\ ssl[i][n].ctx = ssl[i][m].ctx
    BY <2>3, <2>4 DEF ContextsOwned
  <2>6. /\ ssl[i][m] \in SslEntries
        /\ ssl[i][m].key_file # NULL => ssl[i][m].ctx = Block(i, "ctx", ssl[i][m].n)
    BY <2>4, ElementOfSeq DEF OwnContext
  <2>7. ssl[i][m].ctx \in aisl_ssl_free(i, ssl[i][m])
    BY <2>4, <2>5, <2>6, FreedByEntry
  <2>8. ssl[i][m].ctx \in OfComplete
    BY <2>7 DEF OfComplete, Owned
  <2>9. OfComplete \subseteq heap
    BY DEF LifecycleInv, HeapInv
  <2> QED
    BY <2>1, <2>5, <2>8, <2>9
<1> QED
  BY <1>1, LifecycleInvariant, PTL

-----------------------------------------------------------------------------
(* Theorems about the counter and the library.                             *)

(* The quotient and the remainder are unique.                              *)
LEMMA Remainder ==
    ASSUME NEW c \in Nat \ {0}, NEW q \in Int, NEW r \in 0 .. c - 1
    PROVE  (c * q + r) % c = r
<1> DEFINE x == c * q + r
           p == x \div c
<1>1. x \in Int /\ p \in Int /\ x % c \in 0 .. c - 1 /\ x = c * p + (x % c)
  OBVIOUS
<1> HIDE DEF p
<1>2. x - (x % c) = c * p /\ x - r = c * q
  BY <1>1
<1>3. c * (p - q) = r - (x % c)
  BY SMTT(30), <1>1, <1>2
<1> HIDE DEF x
<1>4. p - q \in Int /\ r - (x % c) < c /\ -c < r - (x % c)
  BY <1>1
<1>5. p - q >= 1 => c * (p - q) >= c
  BY <1>4
<1>6. p - q <= -1 => c * (p - q) <= -c
  BY <1>4
<1>7. p - q = 0
  BY <1>3, <1>4, <1>5, <1>6
<1>8. c * (p - q) = 0
  BY <1>7
<1> QED
  BY <1>1, <1>3, <1>8 DEF x

(* Wrapping now or later is the same.                                      *)
LEMMA WrapAgain ==
    ASSUME NEW a \in Int, NEW b \in Int, NEW c \in Nat \ {0}
    PROVE  ((a % c) + b) % c = (a + b) % c
<1> DEFINE q == a \div c
           p == ((a % c) + b) \div c
           r == ((a % c) + b) % c
           n == q + p
<1>1. q \in Int /\ a = c * q + (a % c) /\ a % c \in Int
  OBVIOUS
<1>2. p \in Int /\ r \in 0 .. c - 1 /\ (a % c) + b = c * p + r
  BY <1>1
<1> HIDE DEF q, p, r
<1>3. n \in Int /\ c * n = c * q + c * p
  BY <1>1, <1>2
<1> HIDE DEF n
<1>4. a + b = c * n + r
  BY <1>1, <1>2, <1>3
<1>5. (c * n + r) % c = r
  BY <1>2, <1>3, Remainder
<1> QED
  BY <1>4, <1>5 DEF r

(* A number below the width is not wrapped.                                *)
LEMMA NotWrapped ==
    ASSUME NEW c \in Nat \ {0}, NEW a \in 0 .. c - 1
    PROVE  a % c = a
OBVIOUS

(* The counter follows the complete instances, and the one in hand between *)
(* being counted and being subtracted; it is also subtracted if it was not *)
(* counted.                                                                *)
LEMMA CounterStep ==
    ASSUME LifecycleInv, CounterInv, Next
    PROVE  CounterInv'
<1> USE DEF LifecycleInv
<1> DEFINE early == {"app", "srv", "server"}
<1>0. /\ me \in Instances /\ DOMAIN life = Instances
      /\ CounterSize \in Nat \ {0} /\ uncounted \in Int /\ m_instances \in Int
      /\ IsFiniteSet(Up) /\ Cardinality(Up) \in Nat
      /\ m_instances = (Counted - uncounted) % CounterSize
  BY FS_CardinalityType, LifecycleAssumption DEF TypeOK, CounterInv
<1>a. Counted \in Int /\ Counted - uncounted \in Int
  BY <1>0 DEF Counted
<1>c. ASSUME NEW b \in Int
      PROVE  (m_instances + b) % CounterSize = ((Counted - uncounted) + b) % CounterSize
  <2> DEFINE a == Counted - uncounted
  <2>1. a \in Int /\ m_instances = a % CounterSize
    BY <1>0, <1>a
  <2> HIDE DEF a
  <2>2. ((a % CounterSize) + b) % CounterSize = (a + b) % CounterSize
    BY <1>0, <2>1, WrapAgain
  <2> QED
    BY <2>1, <2>2 DEF a
<1>b. ASSUME Up' = Up, UNCHANGED <<m_instances, uncounted>>, pc \in early <=> pc' \in early
      PROVE  CounterInv'
  BY <1>0, <1>b DEF CounterInv, Counted
<1>1. ASSUME NEW i \in Instances, New(i) PROVE CounterInv'
  BY <1>0, <1>b, <1>1 DEF New, At, Then, Up
<1>2. CASE NewServers \/ NewServer
  <2>1. Up' = Up /\ m_instances' = m_instances /\ pc \in early
    BY <1>2 DEF NewServers, NewServer, At, Up
  <2>2. CASE UNCHANGED uncounted /\ pc' \in early
    BY <1>b, <2>1, <2>2
  <2>3. CASE uncounted' = uncounted + 1 /\ pc' = "release"
    <3>1. Counted' - uncounted' = Counted - uncounted
      BY <1>0, <2>1, <2>3 DEF Counted
    <3> QED
      BY <1>0, <2>1, <3>1 DEF CounterInv
  <2> QED
    BY <1>2, <2>2, <2>3 DEF NewServers, NewServer, At, Then, Fail
<1>3. CASE Count
  <2>1. /\ Up' = Up /\ pc = "server" /\ pc' = "ssl" /\ uncounted' = uncounted
        /\ m_instances' = (m_instances + 1) % CounterSize
    BY <1>3 DEF Count, At, Then, Up
  <2>2. Counted' = Counted + 1
    BY <2>1 DEF Counted
  <2>3. m_instances' = ((Counted - uncounted) + 1) % CounterSize
    BY <1>c, <2>1
  <2>4. (Counted - uncounted) + 1 = Counted' - uncounted'
    BY <1>0, <1>a, <2>1, <2>2
  <2> QED
    BY <1>0, <2>1, <2>3, <2>4 DEF CounterInv
<1>4. CASE NewEntries \/ EntryShared \/ EntryLoaded \/ EntryRefused
  <2>1. Up' = Up /\ UNCHANGED <<m_instances, uncounted>> /\ pc \notin early /\ pc' \notin early
    BY <1>4 DEF NewEntries, EntryShared, EntryLoaded, EntryRefused, AtEntry, At, Then, Fail, Up
  <2> QED
    BY <1>b, <2>1
<1>5. CASE NewSpool
  <2>1. UNCHANGED <<m_instances, uncounted>> /\ pc = "entry"
    BY <1>5 DEF NewSpool, At
  <2>2. CASE life' = [life EXCEPT ![me] = "up"] /\ pc' = "app"
    <3>1. Up' = Up \cup {me} /\ me \notin Up
      BY <1>0, <2>1, <2>2 DEF Up, ControlInv
    <3>2. IsFiniteSet(Up') /\ Cardinality(Up') = Cardinality(Up) + 1
      BY <1>0, <3>1, FS_AddElement
    <3>3. Counted' = Counted
      BY <2>1, <2>2, <3>2 DEF Counted
    <3> QED
      BY <1>0, <2>1, <3>2, <3>3 DEF CounterInv
  <2>3. CASE life' = life /\ pc' = "release"
    BY <1>b, <2>1, <2>3 DEF Up
  <2> QED
    BY <1>5, <2>2, <2>3 DEF NewSpool, Then, Fail
<1>6. ASSUME NEW i \in Instances, Free(i) PROVE CounterInv'
  <2>1. /\ UNCHANGED <<m_instances, uncounted>> /\ pc = "app" /\ pc' = "release"
        /\ life[i] = "up" /\ life' = [life EXCEPT ![i] = "made"]
    BY <1>6 DEF Free, At, Then
  <2>2. Up' = Up \ {i} /\ i \in Up
    BY <1>0, <2>1 DEF Up
  <2>3. IsFiniteSet(Up') /\ Cardinality(Up') = Cardinality(Up) - 1
    BY <1>0, <2>2, FS_RemoveElement
  <2>4. Counted' = Counted
    BY <1>0, <2>1, <2>3 DEF Counted
  <2> QED
    BY <1>0, <2>1, <2>3, <2>4 DEF CounterInv
<1>7. CASE ReleaseServers \/ ReleaseEntry
  <2>1. Up' = Up /\ UNCHANGED <<m_instances, uncounted>> /\ pc \notin early /\ pc' \notin early
    BY <1>7 DEF ReleaseServers, ReleaseEntry, At, Then, Up
  <2> QED
    BY <1>b, <2>1
<1>8. CASE ReleaseInstance
  <2>1. /\ pc = "release_ssl" /\ pc' = "app" /\ uncounted' = uncounted
        /\ life' = [life EXCEPT ![me] = "none"]
        /\ m_instances' = (m_instances - 1) % CounterSize
    BY <1>8 DEF ReleaseInstance, Uncount, At, Then
  <2>2. Up' = Up
    BY <1>0, <2>1 DEF Up, ControlInv
  <2>3. Counted' = Counted - 1
    BY <1>0, <2>1, <2>2 DEF Counted
  <2>4. m_instances + (-1) = m_instances - 1 /\ (Counted - uncounted) + (-1) = Counted' - uncounted'
    BY <1>0, <1>a, <2>1, <2>3
  <2>5. (m_instances + (-1)) % CounterSize = ((Counted - uncounted) + (-1)) % CounterSize
    BY <1>c
  <2> QED
    BY <1>0, <2>1, <2>2, <2>4, <2>5 DEF CounterInv
<1> QED
  BY <1>1, <1>2, <1>3, <1>4, <1>5, <1>6, <1>7, <1>8 DEF Next, Make, Release

(* The counter of instances counts those that are up and the one in hand. *)
LEMMA CounterInvariant == Spec => [](LifecycleInv /\ CounterInv)
<1>1. Init => CounterInv
  <2> SUFFICES ASSUME Init PROVE CounterInv
    OBVIOUS
  <2>1. Up = {} /\ IsFiniteSet(Up) /\ Cardinality(Up) = 0
    BY FS_EmptySet DEF Init, Up
  <2>2. Counted - uncounted = 0 /\ m_instances = 0
    BY <2>1 DEF Init, Counted
  <2>3. 0 % CounterSize = 0
    BY LifecycleAssumption, NotWrapped
  <2> QED
    BY <2>1, <2>2, <2>3 DEF CounterInv
<1>2. LifecycleInv /\ CounterInv /\ [Next]_vars => CounterInv'
  <2>1. UNCHANGED vars => (CounterInv => CounterInv')
    BY DEF vars, CounterInv, Counted, Up
  <2> QED
    BY <2>1, CounterStep
<1> QED
  BY <1>1, <1>2, LifecycleInvariant, PTL DEF Spec

(* m_instances counts the complete instances, less those that were         *)
(* subtracted without having been counted, whatever its width.             *)
THEOREM CounterBalanced == Spec => []CounterBalance
<1>1. CounterInv => CounterBalance
  BY DEF CounterInv, Counted, CounterBalance
<1> QED
  BY <1>1, CounterInvariant, PTL

(* OpenSSL is set up while there is an instance that was counted.  With    *)
(* more instances than the counter has values it would be cleaned up under *)
(* those that are left when the counter passes zero.                       *)
LEMMA LibraryStep ==
    ASSUME IsFiniteSet(Instances), Cardinality(Instances) <= CounterSize,
           LifecycleInv, CounterInv, LibraryInv, Next
    PROVE  LibraryInv'
<1> USE DEF LifecycleInv
<1> DEFINE early == {"app", "srv", "server"}
<1>0. /\ me \in Instances /\ DOMAIN life = Instances
      /\ CounterSize \in Nat \ {0} /\ uncounted \in Nat /\ library \in BOOLEAN
      /\ IsFiniteSet(Up) /\ Cardinality(Up) \in Nat
  BY FS_CardinalityType, LifecycleAssumption DEF TypeOK, CounterInv
<1>a. ASSUME Up' = Up, library' = library, pc \in early <=> pc' \in early,
             uncounted' = 0 => uncounted = 0
      PROVE  LibraryInv'
  BY <1>a DEF LibraryInv
<1>1. ASSUME NEW i \in Instances, New(i) PROVE LibraryInv'
  BY <1>0, <1>a, <1>1 DEF New, At, Then, Up
<1>2. CASE NewServers \/ NewServer
  <2>1. \/ Up' = Up /\ library' = library /\ UNCHANGED uncounted /\ pc \in early /\ pc' \in early
        \/ uncounted' = uncounted + 1
    BY <1>2 DEF NewServers, NewServer, At, Then, Up
  <2>2. uncounted + 1 # 0
    BY <1>0
  <2> QED
    BY <1>a, <2>1, <2>2 DEF LibraryInv
<1>3. CASE Count
  <2>1. /\ pc = "server" /\ pc' = "ssl" /\ uncounted' = uncounted /\ Up' = Up
        /\ library' = (library \/ m_instances = 0)
    BY <1>3 DEF Count, At, Then, Up
  <2>2. ASSUME uncounted = 0, Up = {} PROVE m_instances = 0
    <3>1. Counted - uncounted = 0
      BY <2>1, <2>2, FS_EmptySet DEF Counted
    <3> QED
      BY <1>0, <3>1, NotWrapped DEF CounterInv
  <2> QED
    BY <1>0, <2>1, <2>2 DEF LibraryInv
<1>4. CASE NewEntries \/ EntryShared \/ EntryLoaded \/ EntryRefused
  <2>1. Up' = Up /\ UNCHANGED <<library, uncounted>> /\ pc \notin early /\ pc' \notin early
    BY <1>4 DEF NewEntries, EntryShared, EntryLoaded, EntryRefused, AtEntry, At, Then, Fail, Up
  <2> QED
    BY <1>a, <2>1
<1>5. CASE NewSpool
  <2>1. UNCHANGED <<library, uncounted>> /\ pc = "entry"
    BY <1>5 DEF NewSpool, At
  <2>2. CASE life' = [life EXCEPT ![me] = "up"] /\ pc' = "app"
    <3>1. me \in Up'
      BY <1>0, <2>2 DEF Up
    <3> QED
      BY <2>1, <2>2, <3>1 DEF LibraryInv
  <2>3. CASE life' = life /\ pc' = "release"
    BY <1>a, <2>1, <2>3 DEF Up
  <2> QED
    BY <1>5, <2>2, <2>3 DEF NewSpool, Then, Fail
<1>6. ASSUME NEW i \in Instances, Free(i) PROVE LibraryInv'
  <2>1. /\ UNCHANGED <<library, uncounted>> /\ pc = "app" /\ pc' = "release" /\ i \in Up
    BY <1>6 DEF Free, At, Then, Up
  <2> QED
    BY <2>1 DEF LibraryInv
<1>7. CASE ReleaseServers \/ ReleaseEntry
  <2>1. Up' = Up /\ UNCHANGED <<library, uncounted>> /\ pc \notin early /\ pc' \notin early
    BY <1>7 DEF ReleaseServers, ReleaseEntry, At, Then, Up
  <2> QED
    BY <1>a, <2>1
<1>8. CASE ReleaseInstance
  <2>1. /\ pc = "release_ssl" /\ pc' = "app" /\ uncounted' = uncounted
        /\ library' = (library /\ m_instances' # 0)
        /\ life' = [life EXCEPT ![me] = "none"] /\ life[me] = "made"
    BY <1>0, <1>8 DEF ReleaseInstance, Uncount, At, Then, ControlInv
  <2>2. Up' = Up /\ me \notin Up
    BY <1>0, <2>1 DEF Up
  <2>3. ASSUME uncounted = 0 PROVE m_instances' = Cardinality(Up)
    <3>1. Up \in SUBSET Instances /\ Up # Instances
      BY <1>0, <2>2 DEF Up
    <3>2. Cardinality(Up) < CounterSize
      <4>1. Cardinality(Up) <= Cardinality(Instances) /\ Cardinality(Up) # Cardinality(Instances)
        BY <3>1, FS_Subset
      <4>2. Cardinality(Instances) \in Nat
        BY FS_CardinalityType
      <4> QED
        BY <1>0, <4>1, <4>2
    <3>3. m_instances' = (Cardinality(Up) - 0) % CounterSize
      BY <2>1, <2>2, <2>3, CounterStep DEF CounterInv, Counted
    <3>4. Cardinality(Up) - 0 = Cardinality(Up) /\ Cardinality(Up) \in 0 .. CounterSize - 1
      BY <1>0, <3>2
    <3> QED
      BY <1>0, <3>3, <3>4, NotWrapped
  <2>4. Cardinality(Up) = 0 <=> Up = {}
    BY <1>0, FS_EmptySet
  <2> QED
    BY <2>1, <2>2, <2>3, <2>4 DEF LibraryInv
<1> QED
  BY <1>1, <1>2, <1>3, <1>4, <1>5, <1>6, <1>7, <1>8 DEF Next, Make, Release

(* As long as every instance is counted, and the counter can tell their    *)
(* number from zero, OpenSSL is set up for those that are complete and for *)
(* the one that loads its contexts, and cleaned up with the last.          *)
THEOREM LibraryServes ==
    ASSUME IsFiniteSet(Instances), Cardinality(Instances) <= CounterSize
    PROVE  Spec => []LibraryUp
<1>1. Init => LibraryInv
  BY DEF Init, LibraryInv, Up
<1>2. LifecycleInv /\ CounterInv /\ LibraryInv /\ [Next]_vars => LibraryInv'
  <2>1. UNCHANGED vars => (LibraryInv => LibraryInv')
    BY DEF vars, LibraryInv, Up
  <2> QED
    BY <2>1, LibraryStep
<1>3. LibraryInv => LibraryUp
  BY DEF LibraryInv, LibraryUp
<1> QED
  BY <1>1, <1>2, <1>3, CounterInvariant, PTL DEF Spec
=============================================================================
