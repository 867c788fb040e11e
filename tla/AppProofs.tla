----------------------------- MODULE AppProofs ------------------------------
(***************************************************************************)
(* Proofs about what runs beside the App's main loop: the draw buffers for *)
(* any number of buffers of the caller and pieces of memory, the broker    *)
(* for any clients, limit and window, the host's channel library for any   *)
(* number of connections, data, channels and frames in two transfers, the  *)
(* recorder and its viewer for any drawing calls in any frames, and the    *)
(* cutters for any stream in any pieces.                                   *)
(***************************************************************************)
EXTENDS MCApp, Sequences, SequenceTheorems, TLAPS

-----------------------------------------------------------------------------
(* The broker, from the device to the clients. *)
DeviceHalves == Nat \X {1, 2}
DownTypes ==
    /\ frames \in Nat
    /\ state \in [Clients -> {"away", "waiting", "in", "closing", "left", "dropped"}]
    /\ since \in [Clients -> Nat]
    /\ out \in [Clients -> Seq(DeviceHalves)]
    /\ sock \in [Clients -> Seq(DeviceHalves)]
    /\ got \in [Clients -> Seq(DeviceHalves)]
    /\ \A c \in Clients : since[c] <= frames /\ Len(sock[c]) <= Window

(* q begins with the frame after the first b and skips nothing. *)
Numbered(q, b) == \A i \in DOMAIN q : q[i] = <<b + ((i + 1) \div 2), 2 - (i % 2)>>

(* q is all of the stream when there were f frames, or a beginning of it.    *)
Complete(q, f, b) == Numbered(q, b) /\ Len(q) = 2 * (f - b)
Partial(q, f, b) == Numbered(q, b) /\ Len(q) <= 2 * (f - b)

(* A client's queue o, socket s and what it read, g, when there were f       *)
(* frames, b of them before it was accepted.                                 *)
Kept(st, o, s, g, f, b) ==
    /\ st \in {"away", "waiting"} => o = << >> /\ s = << >> /\ g = << >>
    /\ st = "in" => Complete((g \o s) \o o, f, b)
    /\ st \in {"closing", "left", "dropped"} => Partial(g \o s, f, b)
DownInv == DownTypes /\ \A c \in Clients : Kept(state[c], out[c], sock[c], got[c], frames, since[c])

-----------------------------------------------------------------------------
(* The broker, from the clients to the pipe. *)
ClientHalves == (Clients \X Nat) \X {1, 2}
UpTypes ==
    /\ state \in [Clients -> {"away", "waiting", "in", "closing", "left", "dropped"}]
    /\ written \in [Clients -> Nat]
    /\ up \in [Clients -> Seq(ClientHalves)] /\ half \in [Clients -> Seq(ClientHalves)]
    /\ pipe \in Seq(ClientHalves) /\ breaks \in Nat

(* q is what c wrote after its first k halves. *)
Written(q, c, k) == \A i \in DOMAIN q : q[i] = <<<<c, (k + i - 1) \div 2 + 1>>, ((k + i - 1) % 2) + 1>>

(* While the broker listens to a client it has, in the parser and the        *)
(* socket, what follows the whole frames it relayed.                         *)
Heard(c) == state[c] \in {"away", "waiting", "in", "closing"}
Less(w, q) == w - Len(q)
Relayed(c) == Less(written[c], half[c] \o up[c])
After(q, c, k) == k \in Nat /\ k % 2 = 0 /\ Written(q, c, k)
Behind(q, c, w) == After(q, c, Less(w, q))
HeardInv == \A c \in Clients : Heard(c) => Behind(half[c] \o up[c], c, written[c])

(* On the pipe are pairs of halves, each client's in order, and nothing that *)
(* is yet to be relayed.                                                     *)
Pairs(p) ==
    /\ Len(p) % 2 = 0
    /\ \A i \in DOMAIN p : i % 2 = 1 => p[i + 1] = <<p[i][1], 2>>
InOrder(p) == \A i, j \in DOMAIN p : i < j /\ p[i][1][1] = p[j][1][1] => p[i][1][2] <= p[j][1][2]
Before(p, c, k) == \A i \in DOMAIN p : p[i][1][1] = c => 2 * p[i][1][2] <= k
PipeInv ==
    breaks = 0 => /\ Pairs(pipe) /\ InOrder(pipe)
                  /\ \A c \in Clients : Heard(c) => Before(pipe, c, Relayed(c))
UpInv == UpTypes /\ HeardInv /\ PipeInv

-----------------------------------------------------------------------------

(* The draw buffers. *)
BufferTypes ==
    /\ allocated \in Nat /\ 1 + Cardinality(External) <= allocated /\ allocated <= MaxMemory
    /\ slots \in 1..3 /\ draw \in Memories!Index /\ target \in 0..allocated
    /\ enabled \in BOOLEAN /\ stopped \in BOOLEAN /\ stranded \in BOOLEAN
    /\ buffers \in [Memories!Index -> [data : 0..allocated, owned : BOOLEAN]]
    /\ DOMAIN picture = Memories!Memory
    /\ External \cup {Memories!Frame} \subseteq live /\ Memories!Null \notin live

(* What the library allocated is in one slot only, and in one in use.        *)
Separate ==
    \A i \in Memories!Index : buffers[i].owned /\ buffers[i].data # Memories!Null =>
        /\ i < slots
        /\ buffers[i].data # Memories!Frame /\ buffers[i].data \notin External
        /\ \A j \in Memories!Index \ {i} : buffers[j].data # buffers[i].data

(* A slot has memory of the library's that is there, or the caller's, or     *)
(* none; only slot 0 may have what m_pBuffer was when a call failed.         *)
Sound(i) == buffers[i].data \in (IF buffers[i].owned THEN live ELSE External) \cup {Memories!Null}

(* Without buffers drawing goes to the panel's memory or to a buffer of the  *)
(* caller's, and nothing is owned.                                           *)
SingleBuffer ==
    /\ ~stranded => target \in External \cup {Memories!Frame}
    /\ \A i \in Memories!Index : buffers[i].owned => buffers[i].data = Memories!Null

(* With them it goes to the draw buffer, which is not the panel's memory.    *)
MultiBuffer ==
    /\ draw < slots /\ target # Memories!Frame /\ picture[Memories!Frame] = wanted
    /\ ~stranded => target = buffers[draw].data /\ target # Memories!Null
    /\ Sound(0)

BuffersNow ==
    /\ BufferTypes /\ Separate /\ Sound(1) /\ Sound(2)
    /\ ~enabled => SingleBuffer
    /\ enabled => MultiBuffer
BuffersInv == ~stopped => BuffersNow

-----------------------------------------------------------------------------
LEMMA BuffersStart == Memories!Init => BuffersInv
<1> SUFFICES ASSUME Memories!Init PROVE BuffersInv
  OBVIOUS
<1> USE BuffersConstants DEF Memories!Init, Memories!Index, Memories!Null, Memories!Frame, Memories!Empty
<1>c. Memories!Cardinality(External) = Cardinality(External)
  BY Zenon DEF Cardinality, Memories!Cardinality
<1>0. /\ allocated \in Nat /\ 1 <= allocated /\ allocated <= MaxMemory
      /\ buffers = [i \in 0..2 |-> IF i = 0 THEN [data |-> 1, owned |-> FALSE] ELSE [data |-> 0, owned |-> FALSE]]
  BY <1>c
<1>1. buffers \in [0..2 -> [data : 0..allocated, owned : BOOLEAN]]
  <2>1. 0 \in 0..allocated /\ 1 \in 0..allocated
    BY <1>0
  <2>2. \A i \in 0..2 : buffers[i] \in [data : 0..allocated, owned : BOOLEAN]
    BY <2>1, <1>0
  <2> QED BY <2>2, <1>0
<1>2. Separate /\ SingleBuffer /\ ~enabled /\ Sound(1) /\ Sound(2)
  BY DEF Separate, SingleBuffer, Sound
<1>3. External \cup {1} \subseteq live /\ 0 \notin live
  OBVIOUS
<1>4. DOMAIN picture = Memories!Memory
  OBVIOUS
<1>5. 1 + Cardinality(External) <= allocated /\ slots \in 1..3 /\ draw \in 0..2 /\ target \in 0..allocated
  BY <1>0, <1>c
<1>6. enabled \in BOOLEAN /\ stopped \in BOOLEAN /\ stranded \in BOOLEAN
  OBVIOUS
<1>7. BufferTypes
  BY <1>0, <1>1, <1>3, <1>4, <1>5, <1>6 DEF BufferTypes
<1> QED BY <1>2, <1>7 DEF BuffersInv, BuffersNow

(* What is given back is the library's own, and in no slot but its own.      *)
LEMMA GivenBack ==
    ASSUME BufferTypes, Separate, NEW indexes \in SUBSET Memories!Index
    PROVE  /\ External \cup {Memories!Frame} \subseteq live \ Memories!Owned(indexes)
           /\ \A j \in Memories!Index : j \notin indexes \/ ~buffers[j].owned
                                        => buffers[j].data \notin Memories!Owned(indexes)
<1> USE DEF Memories!Index, Memories!Null, Memories!Frame
<1>1. ASSUME NEW m \in Memories!Owned(indexes)
      PROVE  /\ m \notin External /\ m # 1
             /\ \A j \in 0..2 : j \notin indexes \/ ~buffers[j].owned => buffers[j].data # m
  <2>1. PICK i \in indexes : buffers[i].owned /\ m = buffers[i].data /\ m # 0
    BY DEF Memories!Owned
  <2> QED BY <2>1 DEF Separate
<1> QED BY <1>1 DEF BufferTypes

(* enableMultiBuffer gives every slot in use memory of its own. *)
LEMMA EnableKeeps == ASSUME BuffersNow, NEW n \in 1..3, Memories!Enable(n) PROVE BuffersNow'
<1> USE BuffersConstants DEF Memories!Index, Memories!Null, Memories!Frame, Memories!Empty
<1>0. /\ BufferTypes /\ Separate /\ Sound(1) /\ Sound(2) /\ allocated' = allocated + n /\ slots' = n
      /\ buffers' = [i \in 0..2 |-> IF i < n THEN [data |-> allocated + 1 + i, owned |-> TRUE]
                                                 ELSE Memories!Released(i)]
      /\ enabled' = TRUE /\ stopped' = stopped /\ stranded' = FALSE /\ picture' = picture
      /\ allocated + n <= MaxMemory /\ wanted' = picture[1]
      /\ draw' = (IF n > 1 THEN 1 ELSE 0)
      /\ target' = allocated + 1 + (IF n > 1 THEN 1 ELSE 0)
      /\ live' = (live \ Memories!Owned(0 .. slots - 1)) \cup (allocated + 1 .. allocated + n)
  BY DEF BuffersNow, Memories!Enable
<1>1. \A i \in 0..2 : Memories!Released(i) \in [data : 0..allocated, owned : BOOLEAN]
  BY <1>0 DEF BufferTypes, Memories!Released
<1>2. \A i \in 0..2 : buffers'[i] = IF i < n THEN [data |-> allocated + 1 + i, owned |-> TRUE]
                                               ELSE Memories!Released(i)
  BY <1>0
<1>3. 0 .. slots - 1 \in SUBSET (0..2)
  BY <1>0 DEF BufferTypes
<1>4. BufferTypes'
  <2>1. \A i \in 0..2 : buffers'[i] \in [data : 0..allocated', owned : BOOLEAN]
    BY SMTT(30), <1>0, <1>1, <1>2 DEF BufferTypes
  <2>2. External \cup {1} \subseteq live' /\ 0 \notin live'
    BY <1>0, <1>3, GivenBack DEF BufferTypes
  <2>3. target' \in 0..allocated' /\ draw' \in 0..2 /\ slots' \in 1..3
    BY <1>0 DEF BufferTypes
  <2>4. allocated' \in Nat /\ 1 + Cardinality(External) <= allocated' /\ allocated' <= MaxMemory
    BY <1>0 DEF BufferTypes
  <2>5. buffers' \in [0..2 -> [data : 0..allocated', owned : BOOLEAN]]
    BY <1>0, <2>1
  <2>6. enabled' \in BOOLEAN /\ stopped' \in BOOLEAN /\ stranded' \in BOOLEAN /\ DOMAIN picture' = 1..MaxMemory
    BY <1>0 DEF BufferTypes, Memories!Memory
  <2> QED BY <2>2, <2>3, <2>4, <2>5, <2>6 DEF BufferTypes, Memories!Memory
<1>5. \A i \in 0..2 : i >= n => ~(buffers'[i].owned /\ buffers'[i].data # 0)
  BY <1>0, <1>2 DEF Memories!Released, Separate, BufferTypes
<1>6. Separate'
  <2> SUFFICES ASSUME NEW i \in 0..2, buffers'[i].owned, buffers'[i].data # 0
               PROVE  /\ i < slots' /\ buffers'[i].data # 1 /\ buffers'[i].data \notin External
                      /\ \A j \in (0..2) \ {i} : buffers'[j].data # buffers'[i].data
    BY DEF Separate
  <2>1. i < n /\ buffers'[i].data = allocated + 1 + i
    BY <1>2, <1>5
  <2>2. allocated \in Nat /\ 1 + Cardinality(External) <= allocated
    BY <1>0 DEF BufferTypes
  <2>3. allocated + 1 + i \notin External /\ allocated + 1 + i # 1
    BY <2>2
  <2>4. ASSUME NEW j \in (0..2) \ {i} PROVE buffers'[j].data # allocated + 1 + i
    <3>1. CASE j < n
      <4>1. buffers'[j].data = allocated + 1 + j
        BY <1>2, <3>1
      <4> QED BY <2>2, <4>1
    <3>2. CASE ~(j < n)
      <4>1. buffers'[j].data \in 0..allocated
        BY <1>1, <1>2, <3>2
      <4> QED BY <2>2, <4>1
    <3> QED BY <3>1, <3>2
  <2>5. slots' = n
    BY <1>0
  <2> QED BY <2>1, <2>3, <2>4, <2>5
<1>7. ASSUME NEW i \in 0..2, i < n \/ Sound(i) PROVE Sound(i)'
  <2>1. CASE i < n
    <3>1. buffers'[i].owned /\ buffers'[i].data = allocated + 1 + i
      BY <1>2, <2>1
    <3>2. allocated + 1 + i \in live'
      BY <1>0, <2>1 DEF BufferTypes
    <3> QED BY <3>1, <3>2 DEF Sound
  <2>2. CASE ~(i < n)
    <3>1. buffers'[i] = Memories!Released(i)
      BY <1>2, <2>2
    <3>2. CASE i < slots /\ buffers[i].owned /\ buffers[i].data # 0
      BY <3>1, <3>2 DEF Memories!Released, Sound
    <3>3. CASE ~(i < slots /\ buffers[i].owned /\ buffers[i].data # 0)
      <4>1. buffers'[i] = buffers[i]
        BY <3>1, <3>3 DEF Memories!Released
      <4>2. ~buffers[i].owned \/ buffers[i].data = 0
        BY <1>0, <3>3 DEF Separate
      <4> QED BY <1>7, <2>2, <4>1, <4>2 DEF Sound
    <3> QED BY <3>2, <3>3
  <2> QED BY <2>1, <2>2
<1>8. MultiBuffer'
  <2>1. draw' \in 0..2 /\ draw' < n /\ buffers'[draw'].data = target' /\ target' # 1 /\ target' # 0
    BY <1>0, <1>2 DEF BufferTypes
  <2>2. Sound(0)'
    BY <1>7
  <2> QED BY <1>0, <2>1, <2>2 DEF MultiBuffer
<1> QED BY <1>0, <1>4, <1>6, <1>7, <1>8 DEF BuffersNow

(* When it fails nothing is owned; m_pBuffer is memory that is there unless  *)
(* it pointed at a buffer of the library's.                                  *)
LEMMA EnableFailsKeeps ==
    ASSUME BuffersNow, NEW n \in 1..3, NEW k \in 0 .. n - 1, Memories!EnableFails(n, k)
    PROVE  BuffersNow'
<1> USE BuffersConstants DEF Memories!Index, Memories!Null, Memories!Frame, Memories!Empty
<1>0. /\ BufferTypes /\ Separate /\ Sound(1) /\ Sound(2)
      /\ slots' = 1 /\ enabled' = FALSE /\ UNCHANGED <<stopped, allocated, picture, target, draw>>
      /\ live' = live \ Memories!Owned(0 .. slots - 1)
  BY DEF BuffersNow, Memories!EnableFails
<1>1. 0 .. slots - 1 \in SUBSET (0..2)
  BY <1>0 DEF BufferTypes
<1>2. buffers' = [i \in 0..2 |-> CASE i = 0 -> [data |-> target, owned |-> FALSE]
                                  [] i \in 1 .. k - 1 -> [data |-> 0, owned |-> TRUE]
                                  [] i = k /\ k > 0 -> [Memories!Released(i) EXCEPT !.data = 0]
                                  [] OTHER -> Memories!Released(i)]
  BY DEF Memories!EnableFails
<1>3. ASSUME NEW i \in 1..2
      PROVE  LET b == Memories!Released(i)
             IN  /\ b \in [data : 0..allocated, owned : BOOLEAN]
                 /\ b.data \in External \cup {0} /\ (b.owned => b.data = 0)
  <2>1. Sound(i) /\ buffers[i] \in [data : 0..allocated, owned : BOOLEAN]
    BY <1>0 DEF BufferTypes
  <2>2. CASE i < slots /\ buffers[i].owned /\ buffers[i].data # 0
    BY <1>0, <2>2 DEF Memories!Released, BufferTypes
  <2>3. CASE ~(i < slots /\ buffers[i].owned /\ buffers[i].data # 0)
    BY <1>0, <2>1, <2>3 DEF Memories!Released, Separate, Sound
  <2> QED BY <2>2, <2>3
<1>4. ASSUME NEW i \in 1..2
      PROVE  /\ buffers'[i] \in [data : 0..allocated, owned : BOOLEAN]
             /\ buffers'[i].data \in External \cup {0} /\ (buffers'[i].owned => buffers'[i].data = 0)
  <2>1. 0 \in 0..allocated
    BY <1>0 DEF BufferTypes
  <2>2. CASE i \in 1 .. k - 1
    BY <2>1, <2>2, <1>2
  <2>3. CASE i = k
    BY <2>1, <2>3, <1>2, <1>3
  <2>4. CASE i \notin 1 .. k - 1 /\ i # k
    BY <2>4, <1>2, <1>3
  <2> QED BY <2>2, <2>3, <2>4
<1>5. buffers'[0] = [data |-> target, owned |-> FALSE]
  BY <1>2
<1>6. BufferTypes'
  <2>1. ASSUME NEW i \in 0..2 PROVE buffers'[i] \in [data : 0..allocated, owned : BOOLEAN]
    <3>1. CASE i = 0
      <4>1. target \in 0..allocated
        BY <1>0 DEF BufferTypes
      <4>2. buffers'[i] = [data |-> target, owned |-> FALSE]
        BY <1>5, <3>1
      <4> QED BY <4>1, <4>2
    <3>2. CASE i \in 1..2
      BY <1>4, <3>2
    <3> QED BY <3>1, <3>2
  <2>2. External \cup {1} \subseteq live' /\ 0 \notin live'
    BY <1>0, <1>1, GivenBack DEF BufferTypes
  <2>3. stranded' \in BOOLEAN /\ enabled' \in BOOLEAN
    BY <1>0 DEF BufferTypes, Memories!EnableFails
  <2> QED BY <2>1, <2>2, <2>3, <1>0, <1>2 DEF BufferTypes, Memories!Memory
<1>7. \A i \in 0..2 : buffers'[i].owned => buffers'[i].data = 0
  BY <1>4, <1>5
<1>8. Separate' /\ Sound(1)' /\ Sound(2)'
  BY <1>4, <1>7 DEF Separate, Sound
<1>9. ~stranded' => target' \in External \cup {1}
  <2> SUFFICES ASSUME ~stranded' PROVE target \in External \cup {1}
    BY <1>0
  <2>1. ~stranded /\ (enabled => ~buffers[draw].owned)
    BY DEF Memories!EnableFails
  <2>2. CASE ~enabled
    BY <2>1, <2>2 DEF BuffersNow, SingleBuffer
  <2>3. CASE enabled
    <3>1. Sound(draw) /\ target = buffers[draw].data /\ target # 0
      BY <1>0, <2>1, <2>3 DEF BuffersNow, MultiBuffer, BufferTypes
    <3> QED BY <2>1, <2>3, <3>1 DEF Sound
  <2> QED BY <2>2, <2>3
<1>10. SingleBuffer'
  BY <1>7, <1>9 DEF SingleBuffer
<1> QED BY <1>0, <1>6, <1>8, <1>10 DEF BuffersNow

(* No slot in use is the panel's memory. *)
LEMMA NotThePanel ==
    ASSUME BuffersNow, enabled, NEW i \in Memories!Index
    PROVE  Sound(i) /\ buffers[i].data # Memories!Frame
<1>1. Sound(i)
  BY DEF BuffersNow, MultiBuffer, Memories!Index
<1> QED BY <1>1, BuffersConstants DEF BuffersNow, Separate, Sound, Memories!Frame, Memories!Null

(* Calls that change pictures only. *)
LEMMA PicturesKeep ==
    ASSUME BuffersNow,
           \/ Memories!Draw \/ Memories!Flush
           \/ \E indexes \in SUBSET Memories!Index : Memories!Clear(indexes)
    PROVE  BuffersNow'
<1> USE BuffersConstants DEF Memories!Index, Memories!Null, Memories!Frame, Memories!Empty
<1>0. /\ BufferTypes /\ Separate /\ (~enabled => SingleBuffer) /\ (enabled => MultiBuffer)
      /\ UNCHANGED <<buffers, slots, draw, display, enabled, target, live, stopped, allocated, wanted, stranded>>
  BY DEF BuffersNow, Memories!Draw, Memories!Flush, Memories!Clear, Memories!indexVars
<1>1. DOMAIN picture' = Memories!Memory
  BY <1>0 DEF BufferTypes, Memories!Draw, Memories!Flush, Memories!Clear
<1>2. enabled => picture'[1] = picture[1]
  <2> SUFFICES ASSUME enabled PROVE picture'[1] = picture[1]
    OBVIOUS
  <2>1. CASE Memories!Draw
    BY <1>0, <2>1 DEF BufferTypes, MultiBuffer, Memories!Draw, Memories!Memory
  <2>2. ASSUME NEW indexes \in SUBSET (0..2), Memories!Clear(indexes)
        PROVE  picture'[1] = picture[1]
    <3>1. 1 \notin {buffers[i].data : i \in indexes}
      BY NotThePanel
    <3>2. 1 \in Memories!Memory
      BY DEF Memories!Memory
    <3> QED BY <2>2, <3>1, <3>2 DEF Memories!Clear
  <2> QED BY <2>1, <2>2 DEF Memories!Flush
<1> QED BY <1>0, <1>1, <1>2 DEF BuffersNow, BufferTypes, Separate, Sound, SingleBuffer, MultiBuffer, Memories!Memory

(* swapBuffers, and the choice of a buffer: the panel gets what was drawn.  *)
LEMMA SwapKeeps ==
    ASSUME BuffersNow, NEW autoclear \in BOOLEAN, Memories!Swap(autoclear) PROVE BuffersNow'
<1> USE BuffersConstants DEF Memories!Index, Memories!Null, Memories!Frame, Memories!Empty
<1> DEFINE next == (draw + 1) % slots
<1>0. /\ BufferTypes /\ Separate /\ Sound(1) /\ Sound(2) /\ enabled /\ MultiBuffer
      /\ UNCHANGED <<buffers, slots, enabled, live, stopped, allocated>>
      /\ draw' = next
      /\ target' = IF buffers[next].data = 0 THEN target ELSE buffers[next].data
      /\ picture' = [m \in Memories!Memory |->
                        IF m = buffers[next].data /\ autoclear THEN 0
                        ELSE IF m = 1 THEN picture[buffers[draw].data] ELSE picture[m]]
      /\ wanted' = (IF stranded THEN picture[buffers[draw].data] ELSE Memories!Shown(target))
      /\ stranded' = (buffers[next].data = 0)
      /\ buffers[draw].data # 0
  BY DEF BuffersNow, Memories!Swap
<1>1. next \in 0 .. slots - 1 /\ next \in 0..2
  BY <1>0 DEF BufferTypes
<1> HIDE DEF next
<1>2. buffers[next].data # 1 /\ buffers[next].data \in 0..allocated
  BY <1>0, <1>1, NotThePanel DEF BufferTypes
<1>3. BufferTypes' /\ Separate'
  <2>1. target' \in 0..allocated' /\ draw' \in 0..2 /\ stranded' \in BOOLEAN
    BY <1>0, <1>1, <1>2 DEF BufferTypes
  <2> QED BY <1>0, <2>1 DEF BufferTypes, Separate, Memories!Memory
<1>4. picture'[1] = wanted'
  <2>1. 1 \in Memories!Memory
    BY DEF Memories!Memory
  <2>2. picture'[1] = picture[buffers[draw].data]
    BY <1>0, <1>2, <2>1
  <2> QED BY <1>0, <2>2 DEF MultiBuffer, Memories!Shown
<1>5. Sound(0)' /\ Sound(1)' /\ Sound(2)'
  BY <1>0 DEF Sound, MultiBuffer
<1>6. MultiBuffer'
  <2>1. draw' < slots' /\ target' # 1
    BY <1>0, <1>1, <1>2 DEF BufferTypes, MultiBuffer
  <2>2. ~stranded' => target' = buffers'[draw'].data /\ target' # 0
    BY <1>0
  <2> QED BY <2>1, <2>2, <1>4, <1>5 DEF MultiBuffer
<1> QED BY <1>0, <1>3, <1>5, <1>6 DEF BuffersNow

LEMMA SelectKeeps ==
    ASSUME BuffersNow, NEW i \in 0 .. slots - 1, Memories!SelectDraw(i) \/ Memories!SelectDisplay(i)
    PROVE  BuffersNow'
<1> USE BuffersConstants DEF Memories!Index, Memories!Null, Memories!Frame, Memories!Empty
<1>0. /\ BufferTypes /\ Separate /\ Sound(1) /\ Sound(2) /\ enabled /\ MultiBuffer
      /\ UNCHANGED <<buffers, slots, enabled, live, stopped, allocated>>
  BY DEF BuffersNow, Memories!SelectDraw, Memories!SelectDisplay
<1>1. i \in 0..2 /\ i < slots
  BY <1>0 DEF BufferTypes
<1>2. Sound(0)' /\ Sound(1)' /\ Sound(2)' /\ Separate'
  BY <1>0 DEF Sound, MultiBuffer, Separate
<1>3. buffers[i].data \in 0..allocated /\ buffers[i].data # 1
  BY <1>0, <1>1, NotThePanel DEF BufferTypes
<1>4. CASE Memories!SelectDraw(i)
  <2>1. draw' = i /\ target' = buffers[i].data /\ stranded' = (buffers[i].data = 0) /\ UNCHANGED <<picture, wanted>>
    BY <1>4 DEF Memories!SelectDraw
  <2>2. BufferTypes'
    BY <1>0, <1>1, <1>3, <2>1 DEF BufferTypes, Memories!Memory
  <2>3. MultiBuffer'
    BY <1>0, <1>1, <1>2, <1>3, <2>1 DEF MultiBuffer
  <2> QED BY <1>0, <1>2, <2>2, <2>3 DEF BuffersNow
<1>5. CASE Memories!SelectDisplay(i)
  <2>1. /\ UNCHANGED <<draw, target, stranded>> /\ wanted' = picture[buffers[i].data]
        /\ picture' = [picture EXCEPT ![1] = picture[buffers[i].data]]
    BY <1>5 DEF Memories!SelectDisplay
  <2>2. BufferTypes'
    BY <1>0, <2>1 DEF BufferTypes, Memories!Memory
  <2>3. picture'[1] = wanted'
    BY <1>0, <2>1 DEF BufferTypes, Memories!Memory
  <2>4. MultiBuffer'
    BY <1>0, <1>2, <2>1, <2>3 DEF MultiBuffer
  <2> QED BY <1>0, <1>2, <2>2, <2>4 DEF BuffersNow
<1> QED BY <1>4, <1>5

(* What the caller attaches or takes back is not what is drawn into, or      *)
(* m_pBuffer is stranded.                                                    *)
LEMMA AttachKeeps ==
    ASSUME BuffersNow, NEW i \in Memories!Index, NEW m \in External, Memories!Attach(i, m) PROVE BuffersNow'
<1> USE BuffersConstants DEF Memories!Index, Memories!Null, Memories!Frame, Memories!Empty
<1>0. /\ BufferTypes /\ Separate /\ Sound(1) /\ Sound(2)
      /\ (~enabled => SingleBuffer) /\ (enabled => MultiBuffer)
      /\ UNCHANGED <<draw, enabled, target, picture, stopped, allocated, wanted>>
      /\ live' = live \ Memories!Owned({i})
      /\ buffers' = [buffers EXCEPT ![i] = [data |-> m, owned |-> FALSE]]
      /\ slots' = (IF i >= slots THEN i + 1 ELSE slots)
      /\ stranded' \in BOOLEAN /\ (~stranded' => ~stranded /\ (enabled => i # draw))
  BY DEF BuffersNow, Memories!Attach, BufferTypes
<1>1. \A j \in 0..2 : buffers'[j] = IF j = i THEN [data |-> m, owned |-> FALSE] ELSE buffers[j]
  BY <1>0 DEF BufferTypes
<1>2. External \cup {1} \subseteq live' /\ m \in 0..allocated /\ m # 1
  BY <1>0, GivenBack DEF BufferTypes
<1>3. BufferTypes'
  <2>1. buffers' \in [0..2 -> [data : 0..allocated, owned : BOOLEAN]]
    BY <1>0, <1>1, <1>2 DEF BufferTypes
  <2>2. slots' \in 1..3
    BY <1>0 DEF BufferTypes
  <2>3. 0 \notin live'
    BY <1>0 DEF BufferTypes
  <2> QED BY <2>1, <2>2, <2>3, <1>0, <1>2 DEF BufferTypes, Memories!Memory
<1>4. Separate'
  BY <1>0, <1>1 DEF Separate, BufferTypes
<1>5. ASSUME NEW j \in 0..2, Sound(j) PROVE Sound(j)'
  <2>1. CASE j = i
    BY <1>1, <2>1 DEF Sound
  <2>2. CASE j # i
    <3>1. buffers'[j] = buffers[j]
      BY <1>1, <2>2
    <3>2. buffers[j].data \notin Memories!Owned({i})
      BY <1>0, <2>2, GivenBack
    <3> QED BY <1>0, <1>5, <3>1, <3>2 DEF Sound
  <2> QED BY <2>1, <2>2
<1>6. ~enabled => SingleBuffer'
  BY <1>0, <1>1 DEF SingleBuffer
<1>7. enabled => MultiBuffer'
  <2> SUFFICES ASSUME enabled PROVE MultiBuffer'
    OBVIOUS
  <2>1. draw' < slots' /\ draw \in 0..2 /\ MultiBuffer
    BY <1>0 DEF MultiBuffer, BufferTypes
  <2>2. ~stranded' => target' = buffers'[draw'].data /\ target' # 0
    BY <1>0, <1>1, <2>1 DEF MultiBuffer
  <2>3. Sound(0)'
    BY <1>5, <2>1 DEF MultiBuffer
  <2> QED BY <1>0, <2>1, <2>2, <2>3 DEF MultiBuffer
<1> QED BY <1>0, <1>3, <1>4, <1>5, <1>6, <1>7 DEF BuffersNow

LEMMA DetachKeeps ==
    ASSUME BuffersNow, NEW i \in 0 .. slots - 1, Memories!Detach(i) PROVE BuffersNow'
<1> USE BuffersConstants DEF Memories!Index, Memories!Null, Memories!Frame, Memories!Empty
<1>0. /\ BufferTypes /\ Separate /\ Sound(1) /\ Sound(2)
      /\ (~enabled => SingleBuffer) /\ (enabled => MultiBuffer)
      /\ UNCHANGED <<slots, draw, enabled, target, live, picture, stopped, allocated, wanted>>
      /\ buffers' = [buffers EXCEPT ![i].data = 0] /\ ~buffers[i].owned
      /\ stranded' \in BOOLEAN /\ (~stranded' => ~stranded /\ (enabled => i # draw))
  BY DEF BuffersNow, Memories!Detach, Memories!indexVars, BufferTypes
<1>1. \A j \in 0..2 : buffers'[j] = IF j = i THEN [buffers[i] EXCEPT !.data = 0] ELSE buffers[j]
  BY <1>0 DEF BufferTypes
<1>2. BufferTypes'
  BY <1>0, <1>1 DEF BufferTypes, Memories!Memory
<1>3. \A j \in 0..2 : /\ buffers'[j].owned = buffers[j].owned
                      /\ buffers'[j].data = IF j = i THEN 0 ELSE buffers[j].data
  BY <1>0, <1>1 DEF BufferTypes
<1>4. Separate' /\ (\A j \in 0..2 : Sound(j) => Sound(j)')
  BY <1>0, <1>3 DEF Separate, Sound
<1>5. ~enabled => SingleBuffer'
  BY <1>0, <1>3 DEF SingleBuffer
<1>6. enabled => MultiBuffer'
  BY <1>0, <1>3, <1>4 DEF MultiBuffer, BufferTypes
<1> QED BY <1>0, <1>2, <1>4, <1>5, <1>6 DEF BuffersNow

LEMMA BuffersStep == BuffersInv /\ [Memories!Next]_Memories!vars => BuffersInv'
<1> SUFFICES ASSUME BuffersInv, [Memories!Next]_Memories!vars, ~stopped' PROVE BuffersNow'
  BY DEF BuffersInv
<1>1. CASE UNCHANGED Memories!vars
  <2>1. UNCHANGED <<buffers, slots, draw, display, enabled, target, live, picture, stopped, allocated, wanted, stranded>>
    BY <1>1 DEF Memories!vars, Memories!indexVars
  <2> QED BY <2>1 DEF BuffersInv, BuffersNow, BufferTypes, Separate, Sound, SingleBuffer, MultiBuffer,
                      Memories!Index, Memories!Memory, Memories!Null, Memories!Frame
<1>2. CASE Memories!Next
  <2>2. ASSUME Memories!Stop PROVE FALSE
    BY SMTT(30), <2>2 DEF Memories!Stop
  <2>3. ~stopped
    BY <1>2 DEF Memories!Next, Memories!Enable, Memories!EnableFails, Memories!Draw, Memories!Flush,
                Memories!Stop, Memories!Swap, Memories!SelectDraw, Memories!SelectDisplay,
                Memories!Detach, Memories!Clear, Memories!Attach
  <2>4. BuffersNow
    BY <2>3 DEF BuffersInv
  <2>5. draw \in Memories!Index /\ 0 .. slots - 1 \in SUBSET Memories!Index
    BY <2>4 DEF BuffersNow, BufferTypes, Memories!Index
  <2>6. ASSUME NEW n \in 1..3, Memories!Enable(n) PROVE BuffersNow'
    BY <2>4, <2>6, EnableKeeps
  <2>7. ASSUME NEW n \in 1..3, NEW k \in 0 .. n - 1, Memories!EnableFails(n, k) PROVE BuffersNow'
    BY <2>4, <2>7, EnableFailsKeeps
  <2>8. CASE Memories!Draw \/ Memories!Flush
    BY <2>4, <2>8, PicturesKeep
  <2>9. ASSUME NEW autoclear \in BOOLEAN, Memories!Swap(autoclear) PROVE BuffersNow'
    BY <2>4, <2>9, SwapKeeps
  <2>10. ASSUME NEW i \in 0 .. slots - 1, Memories!SelectDraw(i) \/ Memories!SelectDisplay(i) PROVE BuffersNow'
    BY <2>4, <2>10, SelectKeeps
  <2>11. ASSUME NEW i \in 0 .. slots - 1, Memories!Detach(i) PROVE BuffersNow'
    BY <2>4, <2>11, DetachKeeps
  <2>12. ASSUME NEW i \in 0 .. slots - 1, Memories!Clear({i}) PROVE BuffersNow'
    BY <2>4, <2>5, <2>12, PicturesKeep
  <2>13. CASE Memories!Clear(0 .. slots - 1)
    BY <2>4, <2>5, <2>13, PicturesKeep
  <2>14. CASE Memories!Clear({draw})
    BY <2>4, <2>5, <2>14, PicturesKeep
  <2>15. ASSUME NEW i \in Memories!Index, NEW m \in External, Memories!Attach(i, m) PROVE BuffersNow'
    BY <2>4, <2>15, AttachKeeps
  <2> QED BY <1>2, <2>2, <2>6, <2>7, <2>8, <2>9, <2>10, <2>11, <2>12, <2>13, <2>14, <2>15 DEF Memories!Next
<1> QED BY <1>1, <1>2

(* For any number of the caller's buffers and of calls: m_pBuffer is memory  *)
(* that is there and, with buffers, the draw buffer, and the panel shows     *)
(* what was drawn before the last swap, but from one of the five calls that  *)
(* strand m_pBuffer to the next that gives it memory (GFX.cpp:874-1043).     *)
THEOREM DrawingReaches == Memories!Spec => []DrawingReachesPanel
<1>1. BuffersInv => DrawingReachesPanel
  <2> SUFFICES ASSUME BuffersInv, ~stopped, ~stranded
               PROVE  target \in live /\ (enabled => target = buffers[draw].data
                                                    /\ picture[Memories!Frame] = wanted)
    BY DEF DrawingReachesPanel, Memories!DrawingReachesPanel
  <2>1. BuffersNow
    BY DEF BuffersInv
  <2>2. CASE ~enabled
    BY <2>1, <2>2 DEF BuffersNow, BufferTypes, SingleBuffer
  <2>3. CASE enabled
    <3>1. draw \in Memories!Index /\ Sound(draw) /\ External \subseteq live /\ MultiBuffer
      BY <2>1, <2>3, NotThePanel DEF BuffersNow, BufferTypes
    <3> QED BY <2>3, <3>1 DEF MultiBuffer, Sound
  <2> QED BY <2>2, <2>3
<1> QED BY <1>1, BuffersStart, BuffersStep, PTL DEF Memories!Spec

-----------------------------------------------------------------------------
(* Two sequences one after the other, and a stretch of one. *)
LEMMA ConcatElements ==
    ASSUME NEW S, NEW q \in Seq(S), NEW r \in Seq(S)
    PROVE  /\ q \o r \in Seq(S)
           /\ Len(q) \in Nat /\ Len(r) \in Nat /\ Len(q \o r) = Len(q) + Len(r)
           /\ DOMAIN (q \o r) = 1 .. Len(q) + Len(r)
           /\ \A i \in 1 .. Len(q) : (q \o r)[i] = q[i]
           /\ \A i \in 1 .. Len(r) : (q \o r)[Len(q) + i] = r[i]
<1>1. /\ q \o r \in Seq(S) /\ Len(q \o r) = Len(q) + Len(r)
      /\ \A i \in 1 .. Len(q) + Len(r) : (q \o r)[i] = IF i <= Len(q) THEN q[i] ELSE r[i - Len(q)]
  BY ConcatProperties
<1>2. Len(q) \in Nat /\ Len(r) \in Nat /\ DOMAIN (q \o r) = 1 .. Len(q \o r)
  BY <1>1
<1> QED BY <1>1, <1>2

LEMMA SubSeqElements ==
    ASSUME NEW S, NEW q \in Seq(S), NEW m \in Nat \ {0}, NEW n \in Nat, n <= Len(q), m <= n + 1
    PROVE  /\ SubSeq(q, m, n) \in Seq(S)
           /\ Len(SubSeq(q, m, n)) = n - m + 1
           /\ \A i \in 1 .. n - m + 1 : SubSeq(q, m, n)[i] = q[m + i - 1]
<1>1. \A i \in m .. n : q[i] \in S
  OBVIOUS
<1>2. /\ SubSeq(q, m, n) \in Seq(S)
      /\ Len(SubSeq(q, m, n)) = IF m <= n THEN n - m + 1 ELSE 0
      /\ \A i \in 1 .. n - m + 1 : SubSeq(q, m, n)[i] = q[m + i - 1]
  BY <1>1, SubSeqProperties
<1> QED BY <1>2

LEMMA SameSequence ==
    ASSUME NEW S, NEW q \in Seq(S), NEW r \in Seq(S), Len(q) = Len(r), \A i \in 1 .. Len(q) : q[i] = r[i]
    PROVE  q = r
OBVIOUS

(* A sequence cut in two. *)
LEMMA Cut ==
    ASSUME NEW S, NEW o \in Seq(S), NEW n \in 0 .. Len(o)
    PROVE  /\ SubSeq(o, 1, n) \in Seq(S) /\ Len(SubSeq(o, 1, n)) = n
           /\ SubSeq(o, n + 1, Len(o)) \in Seq(S) /\ Len(SubSeq(o, n + 1, Len(o))) = Len(o) - n
           /\ \A i \in 1 .. n : SubSeq(o, 1, n)[i] = o[i]
           /\ \A i \in 1 .. Len(o) - n : SubSeq(o, n + 1, Len(o))[i] = o[n + i]
           /\ SubSeq(o, 1, n) \o SubSeq(o, n + 1, Len(o)) = o
<1> DEFINE a == SubSeq(o, 1, n)
           m == n + 1
           l == Len(o)
           b == SubSeq(o, m, l)
<1>0. l \in Nat /\ n \in Nat /\ m \in Nat \ {0} /\ n <= l /\ m <= l + 1 /\ l <= Len(o)
  OBVIOUS
<1>1. a \in Seq(S) /\ Len(a) = n /\ \A i \in 1 .. n : a[i] = o[i]
  <2>1. 1 \in Nat \ {0} /\ 1 <= n + 1 /\ n <= Len(o)
    BY <1>0
  <2>2. a \in Seq(S) /\ Len(a) = n - 1 + 1 /\ \A i \in 1 .. n - 1 + 1 : a[i] = o[1 + i - 1]
    BY <1>0, <2>1, SubSeqElements
  <2> HIDE DEF a
  <2> QED BY <1>0, <2>2
<1>2. b \in Seq(S) /\ Len(b) = l - n /\ \A i \in 1 .. l - n : b[i] = o[n + i]
  <2> HIDE DEF l, m
  <2>1. b \in Seq(S) /\ Len(b) = l - m + 1 /\ \A i \in 1 .. l - m + 1 : b[i] = o[m + i - 1]
    BY <1>0, SubSeqElements
  <2> HIDE DEF b
  <2> QED BY SMTT(30), <1>0, <2>1 DEF m
<1> HIDE DEF a, b
<1>3. /\ a \o b \in Seq(S) /\ Len(a \o b) = l
      /\ \A i \in 1 .. n : (a \o b)[i] = a[i]
      /\ \A i \in 1 .. l - n : (a \o b)[n + i] = b[i]
  BY SMTT(30), <1>0, <1>1, <1>2, ConcatElements
<1>4. \A i \in 1 .. l : (a \o b)[i] = o[i]
  <2> TAKE i \in 1 .. l
  <2>1. CASE i <= n
    BY <1>0, <1>1, <1>3, <2>1
  <2>2. CASE i > n
    <3>1. i - n \in 1 .. l - n /\ n + (i - n) = i
      BY <1>0, <2>2
    <3>2. (a \o b)[n + (i - n)] = b[i - n] /\ b[i - n] = o[n + (i - n)]
      BY <1>2, <1>3, <3>1
    <3> QED BY <3>1, <3>2
  <2>3. i <= n \/ i > n
    BY <1>0
  <2> QED BY <2>1, <2>2, <2>3
<1>5. a \o b = o
  BY <1>3, <1>4, SameSequence
<1> QED BY <1>1, <1>2, <1>5 DEF a, b

(* What is moved from the front of o to the end of s stays in its place:    *)
(* these become t and r.                                                    *)
Passed(S, g, s, o, n, t, r) ==
    /\ t \in Seq(S) /\ r \in Seq(S)
    /\ Len(t) = Len(s) + n /\ (g \o t) \o r = (g \o s) \o o
LEMMA MovedStays ==
    ASSUME NEW S, NEW g \in Seq(S), NEW s \in Seq(S), NEW o \in Seq(S), NEW n \in 0 .. Len(o)
    PROVE  Passed(S, g, s, o, n, s \o SubSeq(o, 1, n), SubSeq(o, n + 1, Len(o)))
<1> DEFINE a == SubSeq(o, 1, n)
           b == SubSeq(o, n + 1, Len(o))
<1>1. a \in Seq(S) /\ b \in Seq(S) /\ Len(a) = n /\ a \o b = o
  BY Cut
<1> HIDE DEF a, b
<1>2. s \o a \in Seq(S) /\ g \o s \in Seq(S) /\ Len(s \o a) = Len(s) + n
  BY <1>1, ConcatElements
<1>3. g \o (s \o a) = (g \o s) \o a
  <2>1. a \in Seq(S)
    BY <1>1
  <2> QED BY SMTT(30), <2>1, ConcatAssociative
<1>4. ((g \o s) \o a) \o b = (g \o s) \o (a \o b)
  <2>1. a \in Seq(S) /\ b \in Seq(S)
    BY <1>1
  <2>2. \A w \in Seq(S) : (w \o a) \o b = w \o (a \o b)
    BY SMTT(40), <2>1, ConcatAssociative
  <2>3. g \o s \in Seq(S)
    BY <1>2
  <2> QED BY ONLY <2>2, <2>3, Zenon
<1>5. Passed(S, g, s, o, n, s \o a, b)
  BY <1>1, <1>2, <1>3, <1>4 DEF Passed
<1> QED BY <1>5 DEF a, b

LEMMA HeadMoved ==
    ASSUME NEW S, NEW g \in Seq(S), NEW s \in Seq(S), s # << >>
    PROVE  Append(g, Head(s)) \o Tail(s) = g \o s
<1> DEFINE h == <<Head(s)>>
<1>1. h \in Seq(S) /\ Tail(s) \in Seq(S)
  OBVIOUS
<1>2. Append(g, Head(s)) = g \o h
  BY AppendIsConcat
<1>3. h \o Tail(s) = s
  <2>1. /\ Len(h) = 1 /\ h[1] = s[1] /\ Len(s) \in Nat \ {0} /\ Len(Tail(s)) = Len(s) - 1
        /\ \A i \in 1 .. Len(s) - 1 : Tail(s)[i] = s[i + 1]
    OBVIOUS
  <2> HIDE DEF h
  <2>2. /\ h \o Tail(s) \in Seq(S) /\ Len(h \o Tail(s)) = Len(s) /\ (h \o Tail(s))[1] = s[1]
        /\ \A i \in 1 .. Len(s) - 1 : (h \o Tail(s))[1 + i] = s[i + 1]
    <3> DEFINE t == Tail(s)
    <3>1. t \in Seq(S) /\ Len(t) = Len(s) - 1 /\ \A i \in 1 .. Len(t) : t[i] = s[i + 1]
      BY <1>1, <2>1
    <3> HIDE DEF t
    <3>2. /\ h \o t \in Seq(S) /\ Len(h \o t) = Len(h) + Len(t)
          /\ \A i \in 1 .. Len(h) : (h \o t)[i] = h[i]
          /\ \A i \in 1 .. Len(t) : (h \o t)[Len(h) + i] = t[i]
      <4>1. h \in Seq(S) /\ t \in Seq(S)
        BY <1>1, <3>1
      <4> QED BY <4>1, ConcatElements
    <3>3. Len(h \o t) = Len(s) /\ (h \o t)[1] = s[1]
      BY <2>1, <3>1, <3>2
    <3>4. \A i \in 1 .. Len(s) - 1 : (h \o t)[1 + i] = s[i + 1]
      BY <2>1, <3>1, <3>2
    <3> QED BY <3>2, <3>3, <3>4 DEF t
  <2>3. ASSUME NEW i \in 1 .. Len(s) PROVE (h \o Tail(s))[i] = s[i]
    <3>1. CASE i = 1
      BY <2>2, <3>1
    <3>2. CASE i # 1
      <4>1. i - 1 \in 1 .. Len(s) - 1 /\ 1 + (i - 1) = i /\ (i - 1) + 1 = i
        BY <2>1, <3>2
      <4> QED BY <2>2, <4>1
    <3> QED BY <3>1, <3>2
  <2> QED BY <2>2, <2>3, SameSequence
<1> HIDE DEF h
<1>4. (g \o h) \o Tail(s) = g \o (h \o Tail(s))
  <2> DEFINE t == Tail(s)
  <2>1. g \in Seq(S) /\ h \in Seq(S) /\ t \in Seq(S)
    BY <1>1
  <2> HIDE DEF t
  <2>2. (g \o h) \o t = g \o (h \o t)
    BY ONLY <2>1, ConcatAssociative
  <2> QED BY <2>2 DEF t
<1> QED BY <1>2, <1>3, <1>4

LEMMA NumberedFront ==
    ASSUME NEW g \in Seq(DeviceHalves), NEW o \in Seq(DeviceHalves), NEW b, Numbered(g \o o, b)
    PROVE  Numbered(g, b)
<1>1. \A i \in DOMAIN g : i \in DOMAIN (g \o o) /\ (g \o o)[i] = g[i]
  <2>1. DOMAIN g = 1 .. Len(g)
    OBVIOUS
  <2> QED BY <2>1, ConcatElements
<1> QED BY <1>1 DEF Numbered

(* What is left of a stream without its queue, and what it is later.        *)
LEMMA FrontIsPartial ==
    ASSUME NEW g \in Seq(DeviceHalves), NEW s \in Seq(DeviceHalves), NEW o \in Seq(DeviceHalves),
           NEW f, NEW b, Complete((g \o s) \o o, f, b)
    PROVE  Partial(g \o s, f, b)
<1> DEFINE w == g \o s
<1>1. w \in Seq(DeviceHalves)
  BY ConcatElements
<1> HIDE DEF w
<1>2. Len(w) \in Nat /\ Len(o) \in Nat /\ Len(w \o o) = Len(w) + Len(o)
  BY ONLY <1>1, o \in Seq(DeviceHalves), ConcatElements
<1>3. Numbered(w \o o, b) /\ Len(w \o o) = 2 * (f - b)
  BY DEF Complete, w
<1>4. Numbered(w, b)
  BY <1>1, <1>3, NumberedFront
<1>5. PICK l : l = 2 * (f - b)
  OBVIOUS
<1>6. Len(w) <= l
  BY <1>2, <1>3, <1>5
<1>7. Partial(w, f, b)
  BY <1>4, <1>5, <1>6 DEF Partial
<1> QED BY <1>7 DEF w

LEMMA PartialLater ==
    ASSUME NEW S, NEW q \in Seq(S), NEW f \in Nat, NEW b \in Nat, Partial(q, f, b)
    PROVE  Partial(q, f + 1, b)
<1>1. PICK l \in Nat : l = Len(q)
  OBVIOUS
<1>2. l <= 2 * (f - b)
  BY <1>1 DEF Partial
<1>3. l <= 2 * (f + 1 - b)
  BY <1>2
<1> QED BY <1>1, <1>3 DEF Partial

(* Two more at the end. *)
LEMMA PairAdded ==
    ASSUME NEW S, NEW w \in Seq(S), NEW x \in S, NEW y \in S
    PROVE  /\ w \o <<x, y>> \in Seq(S) /\ Len(w) \in Nat /\ Len(w \o <<x, y>>) = Len(w) + 2
           /\ DOMAIN (w \o <<x, y>>) = 1 .. Len(w) + 2
           /\ \A i \in 1 .. Len(w) : i \in DOMAIN w /\ (w \o <<x, y>>)[i] = w[i]
           /\ (w \o <<x, y>>)[Len(w) + 1] = x /\ (w \o <<x, y>>)[Len(w) + 2] = y
<1> DEFINE h == <<x, y>>
<1>1. h \in Seq(S) /\ Len(h) = 2 /\ h[1] = x /\ h[2] = y
  OBVIOUS
<1>2. DOMAIN w = 1 .. Len(w)
  OBVIOUS
<1> HIDE DEF h
<1>3. h \in Seq(S)
  BY <1>1
<1>4. /\ w \o h \in Seq(S) /\ Len(w) \in Nat /\ Len(w \o h) = Len(w) + Len(h)
      /\ DOMAIN (w \o h) = 1 .. Len(w) + Len(h)
      /\ \A i \in 1 .. Len(w) : (w \o h)[i] = w[i]
      /\ \A i \in 1 .. Len(h) : (w \o h)[Len(w) + i] = h[i]
  BY ONLY <1>3, w \in Seq(S), ConcatElements
<1> QED BY <1>1, <1>2, <1>4 DEF h

(* The next frame goes on where the stream ends. *)
LEMMA NumberedGrows ==
    ASSUME NEW w \in Seq(DeviceHalves), NEW b \in Nat, NEW f \in Nat, b <= f,
           Complete(w, f, b)
    PROVE  Shared!Halves(f + 1) \in Seq(DeviceHalves) /\ Complete(w \o Shared!Halves(f + 1), f + 1, b)
<1> DEFINE x == <<f + 1, 1>>
           y == <<f + 1, 2>>
           v == w \o <<x, y>>
<1>1. x \in DeviceHalves /\ y \in DeviceHalves
  BY DEF DeviceHalves
<1>2. PICK l \in Nat : l = Len(w)
  OBVIOUS
<1>3. l = 2 * (f - b)
  BY <1>2 DEF Complete
<1>4. \A i \in 1 .. l : w[i] = <<b + ((i + 1) \div 2), 2 - (i % 2)>>
  <2>1. DOMAIN w = 1 .. l
    BY <1>2
  <2> QED BY <2>1 DEF Complete, Numbered
<1> HIDE DEF x, y
<1>5. /\ <<x, y>> \in Seq(DeviceHalves) /\ Len(v) = l + 2 /\ DOMAIN v = 1 .. l + 2
      /\ \A i \in 1 .. l : v[i] = w[i]
      /\ v[l + 1] = x /\ v[l + 2] = y
  <2> HIDE DEF v
  <2>1. /\ Len(v) = Len(w) + 2 /\ DOMAIN v = 1 .. Len(w) + 2
        /\ \A i \in 1 .. Len(w) : v[i] = w[i]
        /\ v[Len(w) + 1] = x /\ v[Len(w) + 2] = y
    BY <1>1, PairAdded DEF v
  <2>2. <<x, y>> \in Seq(DeviceHalves)
    BY <1>1
  <2> QED BY <1>2, <2>1, <2>2
<1> HIDE DEF v
<1>6. ASSUME NEW i \in 1 .. l + 2 PROVE v[i] = <<b + ((i + 1) \div 2), 2 - (i % 2)>>
  <2>1. CASE i <= l
    <3>1. i \in 1 .. l
      BY <2>1
    <3>2. v[i] = w[i]
      BY <1>5, <3>1
    <3>3. w[i] = <<b + ((i + 1) \div 2), 2 - (i % 2)>>
      BY <1>4, <3>1
    <3> QED BY <3>2, <3>3
  <2>2. CASE i = l + 1
    <3>1. (i + 1) \div 2 = f - b + 1 /\ i % 2 = 1
      BY <1>3, <2>2
    <3> QED BY <3>1, <1>5, <2>2 DEF x
  <2>3. CASE i = l + 2
    <3>1. (i + 1) \div 2 = f - b + 1 /\ i % 2 = 0
      BY <1>3, <2>3
    <3> QED BY <3>1, <1>5, <2>3 DEF y
  <2> QED BY <2>1, <2>2, <2>3
<1>7. Shared!Halves(f + 1) = <<x, y>>
  BY DEF x, y, Shared!Halves
<1>8. Numbered(v, b)
  BY <1>5, <1>6 DEF Numbered
<1>9. Complete(v, f + 1, b)
  BY <1>3, <1>5, <1>8 DEF Complete
<1> QED BY <1>5, <1>7, <1>9 DEF v

LEMMA DownStart == Shared!Init => DownInv
<1> SUFFICES ASSUME Shared!Init PROVE DownInv
  OBVIOUS
<1>1. /\ frames = 0 /\ state = [c \in Clients |-> "away"] /\ since = [c \in Clients |-> 0]
      /\ out = [c \in Clients |-> << >>] /\ sock = out /\ got = out
  BY DEF Shared!Init
<1>2. << >> \in Seq(DeviceHalves) /\ Len(<< >>) = 0
  OBVIOUS
<1>3. DownTypes
  BY <1>1, <1>2, BrokerConstants DEF DownTypes
<1>4. ASSUME NEW c \in Clients PROVE Kept(state[c], out[c], sock[c], got[c], frames, since[c])
  BY <1>1 DEF Kept
<1> QED BY <1>3, <1>4 DEF DownInv

(* What flush() moves fits both the queue and the socket. *)
LEMMA MovedFits ==
    ASSUME NEW q \in Seq(DeviceHalves), NEW s \in Seq(DeviceHalves), Len(s) <= Window
    PROVE  Shared!Moved(q, s) \in 0 .. Len(q) /\ Len(s) + Shared!Moved(q, s) <= Window
BY BrokerConstants DEF Shared!Moved

(* broadcast(): a client that has room gets the whole frame, one that has   *)
(* not loses its queue, and its socket keeps a stretch from the beginning.  *)
LEMMA BroadcastKeeps == ASSUME DownInv, Shared!Broadcast PROVE DownInv'
<1> DEFINE open == {c \in Clients : state[c] = "in"}
           kept == {c \in open : Shared!Room(c)}
           n(c) == Shared!Moved(Shared!Queued(c), sock[c])
<1>0. /\ DownTypes /\ \A c \in Clients : Kept(state[c], out[c], sock[c], got[c], frames, since[c])
      /\ frames' = frames + 1
      /\ state' = [c \in Clients |-> IF c \in open \ kept THEN "dropped" ELSE state[c]]
      /\ out' = [c \in Clients |-> IF c \in kept
                                     THEN SubSeq(Shared!Queued(c), n(c) + 1, Len(Shared!Queued(c)))
                                     ELSE IF c \in open THEN << >> ELSE out[c]]
      /\ sock' = [c \in Clients |-> IF c \in kept
                                      THEN sock[c] \o SubSeq(Shared!Queued(c), 1, n(c))
                                      ELSE sock[c]]
      /\ since' = since /\ got' = got
  BY DEF DownInv, Shared!Broadcast, Shared!AfterBehind
<1> HIDE DEF open, kept, n
<1>1. ASSUME NEW c \in Clients
      PROVE  /\ since[c] \in Nat /\ frames \in Nat /\ since[c] <= frames /\ Len(sock[c]) <= Window
             /\ out[c] \in Seq(DeviceHalves) /\ sock[c] \in Seq(DeviceHalves) /\ got[c] \in Seq(DeviceHalves)
             /\ Kept(state[c], out[c], sock[c], got[c], frames, since[c])
  BY <1>0, <1>1 DEF DownTypes
<1>2. ASSUME NEW c \in Clients
      PROVE  /\ out'[c] \in Seq(DeviceHalves) /\ sock'[c] \in Seq(DeviceHalves) /\ Len(sock'[c]) <= Window
             /\ Kept(state'[c], out'[c], sock'[c], got[c], frames + 1, since[c])
  <2>1. CASE c \in kept
    <3> DEFINE q == Shared!Queued(c)
               h == Shared!Halves(frames + 1)
               w == (got[c] \o sock[c]) \o out[c]
    <3>1. state[c] = "in"
      BY <2>1 DEF kept, open
    <3>2. Complete(w, frames, since[c]) /\ w \in Seq(DeviceHalves)
      <4>1. got[c] \o sock[c] \in Seq(DeviceHalves)
        BY <1>1, ConcatElements
      <4>2. (got[c] \o sock[c]) \o out[c] \in Seq(DeviceHalves)
        BY <4>1, <1>1, ConcatElements
      <4> QED BY <4>2, <1>1, <3>1 DEF Kept
    <3> HIDE DEF w
    <3>3. h \in Seq(DeviceHalves) /\ Complete(w \o h, frames + 1, since[c])
      BY <1>1, <3>2, NumberedGrows
    <3>4. q = out[c] \o h /\ q \in Seq(DeviceHalves)
      BY <1>1, <3>3 DEF Shared!Queued
    <3>5. n(c) \in 0 .. Len(q) /\ Len(sock[c]) + n(c) <= Window
      BY <1>1, <3>4, MovedFits DEF n
    <3>6. out'[c] = SubSeq(q, n(c) + 1, Len(q)) /\ sock'[c] = sock[c] \o SubSeq(q, 1, n(c)) /\ state'[c] = "in"
      BY <1>0, <2>1, <3>1
    <3> HIDE DEF q, h
    <3>7. /\ sock'[c] \in Seq(DeviceHalves) /\ out'[c] \in Seq(DeviceHalves) /\ Len(sock'[c]) = Len(sock[c]) + n(c)
          /\ (got[c] \o sock'[c]) \o out'[c] = (got[c] \o sock[c]) \o q
      <4> DEFINE k == n(c)
      <4>1. k \in 0 .. Len(q) /\ out'[c] = SubSeq(q, k + 1, Len(q)) /\ sock'[c] = sock[c] \o SubSeq(q, 1, k)
        BY <3>5, <3>6
      <4> HIDE DEF k
      <4>2. Passed(DeviceHalves, got[c], sock[c], q, k, sock[c] \o SubSeq(q, 1, k), SubSeq(q, k + 1, Len(q)))
        <5>1. got[c] \in Seq(DeviceHalves) /\ sock[c] \in Seq(DeviceHalves)
          BY <1>1
        <5>2. q \in Seq(DeviceHalves) /\ k \in 0 .. Len(q)
          BY <3>4, <4>1
        <5> QED BY <5>1, <5>2, MovedStays
      <4>3. Passed(DeviceHalves, got[c], sock[c], q, k, sock'[c], out'[c])
        BY <4>1, <4>2
      <4> QED BY <4>3 DEF k, Passed
    <3>8. (got[c] \o sock[c]) \o q = w \o h
      <4>1. got[c] \o sock[c] \in Seq(DeviceHalves)
        BY <1>1, ConcatElements
      <4>2. out[c] \in Seq(DeviceHalves) /\ h \in Seq(DeviceHalves)
        BY <1>1, <3>3
      <4> DEFINE v == got[c] \o sock[c]
                 o == out[c]
      <4>3. v \in Seq(DeviceHalves) /\ o \in Seq(DeviceHalves)
        BY <4>1, <4>2
      <4> HIDE DEF v, o
      <4>4. (v \o o) \o h = v \o (o \o h)
        BY ONLY SMTT(30), <4>2, <4>3, ConcatAssociative
      <4> QED BY <3>4, <4>4 DEF v, o, w
    <3>9. Complete((got[c] \o sock'[c]) \o out'[c], frames + 1, since[c])
      BY <3>3, <3>7, <3>8
    <3>10. state'[c] = "in"
      BY <3>6
    <3>11. Kept(state'[c], out'[c], sock'[c], got[c], frames + 1, since[c])
      BY <3>9, <3>10 DEF Kept
    <3> QED BY <3>5, <3>7, <3>11
  <2>2. CASE c \in open \ kept
    <3>1. state[c] = "in" /\ state'[c] = "dropped" /\ out'[c] = << >> /\ sock'[c] = sock[c]
      BY <1>0, <2>2 DEF open, kept
    <3>2. Complete((got[c] \o sock[c]) \o out[c], frames, since[c])
      BY <1>1, <3>1 DEF Kept
    <3>3. Partial(got[c] \o sock[c], frames, since[c])
      BY <1>1, <3>2, FrontIsPartial
    <3>4. got[c] \o sock[c] \in Seq(DeviceHalves)
      BY <1>1, ConcatElements
    <3>5. Partial(got[c] \o sock[c], frames + 1, since[c])
      BY <1>1, <3>3, <3>4, PartialLater
    <3>6. Kept("dropped", << >>, sock[c], got[c], frames + 1, since[c])
      BY <3>5 DEF Kept
    <3>7. << >> \in Seq(DeviceHalves)
      OBVIOUS
    <3> QED BY <1>1, <3>1, <3>6, <3>7
  <2>3. CASE c \notin open
    <3>1. state[c] # "in" /\ state'[c] = state[c] /\ out'[c] = out[c] /\ sock'[c] = sock[c]
      BY <1>0, <2>3 DEF open, kept
    <3>2. got[c] \o sock[c] \in Seq(DeviceHalves)
      BY <1>1, ConcatElements
    <3>3. Partial(got[c] \o sock[c], frames, since[c]) => Partial(got[c] \o sock[c], frames + 1, since[c])
      BY <1>1, <3>2, PartialLater
    <3>4. Kept(state[c], out[c], sock[c], got[c], frames + 1, since[c])
      BY <1>1, <3>1, <3>3 DEF Kept
    <3> QED BY <1>1, <3>1, <3>4
  <2> QED BY <2>1, <2>2, <2>3 DEF kept
<1>3. DownTypes'
  <2>1. out' \in [Clients -> Seq(DeviceHalves)]
    BY <1>0, <1>2
  <2>2. sock' \in [Clients -> Seq(DeviceHalves)]
    BY <1>0, <1>2
  <2>3. state' \in [Clients -> {"away", "waiting", "in", "closing", "left", "dropped"}]
    BY <1>0 DEF DownTypes
  <2> QED BY <2>1, <2>2, <2>3, <1>0, <1>2 DEF DownTypes
<1> QED BY <1>0, <1>2, <1>3 DEF DownInv

(* A step about one client. *)
LEMMA OneKept ==
    ASSUME DownInv, NEW c \in Clients, frames' = frames,
           NEW st \in {"away", "waiting", "in", "closing", "left", "dropped"},
           NEW o \in Seq(DeviceHalves), NEW s \in Seq(DeviceHalves), NEW g \in Seq(DeviceHalves), NEW b \in 0 .. frames,
           state' = [state EXCEPT ![c] = st], out' = [out EXCEPT ![c] = o], sock' = [sock EXCEPT ![c] = s],
           got' = [got EXCEPT ![c] = g], since' = [since EXCEPT ![c] = b],
           Len(s) <= Window, Kept(st, o, s, g, frames, b)
    PROVE  DownInv'
<1>1. DownTypes
  BY DEF DownInv
<1>2. DownTypes'
  BY <1>1 DEF DownTypes
<1>3. ASSUME NEW d \in Clients PROVE Kept(state'[d], out'[d], sock'[d], got'[d], frames, since'[d])
  <2>1. CASE d = c
    BY <1>1, <2>1 DEF DownTypes
  <2>2. CASE d # c
    <3>1. state'[d] = state[d] /\ out'[d] = out[d] /\ sock'[d] = sock[d] /\ got'[d] = got[d] /\ since'[d] = since[d]
      BY <1>1, <2>2 DEF DownTypes
    <3> QED BY <3>1 DEF DownInv
  <2> QED BY <2>1, <2>2
<1> QED BY <1>2, <1>3 DEF DownInv

(* Every other step moves what a client is yet to read, or ends it. *)
LEMMA OneClientKeeps ==
    ASSUME DownInv, NEW c \in Clients,
           \/ Shared!Accept(c) \/ Shared!Flush(c) \/ Shared!DropClient(c)
           \/ Shared!Connect(c) \/ Shared!ClientReads(c) \/ Shared!ClientCloses(c)
    PROVE  DownInv'
<1> DEFINE States == {"away", "waiting", "in", "closing", "left", "dropped"}
<1>0. DownTypes /\ Kept(state[c], out[c], sock[c], got[c], frames, since[c])
  BY DEF DownInv
<1>1. /\ since[c] \in 0 .. frames /\ frames \in Nat /\ Len(sock[c]) <= Window /\ state[c] \in States
      /\ out[c] \in Seq(DeviceHalves) /\ sock[c] \in Seq(DeviceHalves) /\ got[c] \in Seq(DeviceHalves)
  BY <1>0 DEF DownTypes
<1>2. /\ state = [state EXCEPT ![c] = state[c]] /\ out = [out EXCEPT ![c] = out[c]]
      /\ sock = [sock EXCEPT ![c] = sock[c]] /\ got = [got EXCEPT ![c] = got[c]]
      /\ since = [since EXCEPT ![c] = since[c]]
  BY <1>0 DEF DownTypes
<1>3. << >> \in Seq(DeviceHalves) /\ Len(<< >>) = 0
  OBVIOUS
<1>4. CASE Shared!Accept(c)
  <2>1. /\ state[c] = "waiting" /\ state' = [state EXCEPT ![c] = "in"] /\ since' = [since EXCEPT ![c] = frames]
        /\ UNCHANGED <<frames, out, sock, got>>
    BY <1>4 DEF Shared!Accept
  <2>2. out[c] = << >> /\ sock[c] = << >> /\ got[c] = << >>
    BY <1>0, <2>1 DEF Kept
  <2>3. Kept("in", out[c], sock[c], got[c], frames, frames)
    <3> DEFINE e == << >>
    <3>1. e \o e = e /\ Len(e) = 0 /\ DOMAIN e = {}
      BY <1>3
    <3>2. (got[c] \o sock[c]) \o out[c] = e
      BY <2>2, <3>1
    <3>3. Complete(e, frames, frames)
      BY <1>1, <3>1 DEF Complete, Numbered
    <3> QED BY <3>2, <3>3 DEF Kept
  <2>4. frames \in 0 .. frames /\ "in" \in States
    BY <1>1
  <2>5. /\ out' = [out EXCEPT ![c] = out[c]] /\ sock' = [sock EXCEPT ![c] = sock[c]]
        /\ got' = [got EXCEPT ![c] = got[c]] /\ frames' = frames
    BY <1>2, <2>1
  <2> QED BY <1>1, <2>1, <2>3, <2>4, <2>5, OneKept
<1>5. CASE Shared!Flush(c)
  <2> DEFINE n == Shared!Moved(out[c], sock[c])
             o == SubSeq(out[c], n + 1, Len(out[c]))
             s == sock[c] \o SubSeq(out[c], 1, n)
  <2>1. /\ state[c] = "in" /\ sock' = [sock EXCEPT ![c] = s] /\ out' = [out EXCEPT ![c] = o]
        /\ UNCHANGED <<frames, state, since, got>>
    BY <1>5 DEF Shared!Flush
  <2>2. n \in 0 .. Len(out[c]) /\ Len(sock[c]) + n <= Window
    BY <1>1, MovedFits
  <2> HIDE DEF n
  <2>3. /\ s \in Seq(DeviceHalves) /\ o \in Seq(DeviceHalves) /\ Len(s) <= Window
        /\ (got[c] \o s) \o o = (got[c] \o sock[c]) \o out[c]
    <3>1. Passed(DeviceHalves, got[c], sock[c], out[c], n, s, o)
      <4>1. got[c] \in Seq(DeviceHalves) /\ sock[c] \in Seq(DeviceHalves) /\ out[c] \in Seq(DeviceHalves)
        BY <1>1
      <4> QED BY <4>1, <2>2, MovedStays
    <3> HIDE DEF s, o
    <3>2. /\ s \in Seq(DeviceHalves) /\ o \in Seq(DeviceHalves) /\ Len(s) = Len(sock[c]) + n
          /\ (got[c] \o s) \o o = (got[c] \o sock[c]) \o out[c]
      BY <3>1 DEF Passed
    <3>3. Len(sock[c]) \in Nat /\ n \in Nat
      BY <1>1, <2>2
    <3> QED BY <2>2, <3>2, <3>3
  <2> HIDE DEF s, o
  <2>4. Kept("in", o, s, got[c], frames, since[c])
    BY <1>0, <2>1, <2>3 DEF Kept
  <2> QED BY <1>1, <1>2, <2>1, <2>3, <2>4, OneKept
<1>6. CASE Shared!DropClient(c)
  <2>1. /\ state[c] = "closing" /\ state' = [state EXCEPT ![c] = "left"] /\ out' = [out EXCEPT ![c] = << >>]
        /\ UNCHANGED <<frames, sock, since, got>>
    BY <1>6 DEF Shared!DropClient
  <2>2. Kept("left", << >>, sock[c], got[c], frames, since[c])
    BY <1>0, <2>1 DEF Kept
  <2> QED BY <1>1, <1>2, <1>3, <2>1, <2>2, OneKept
<1>7. CASE Shared!Connect(c)
  <2>1. /\ state[c] = "away" /\ state' = [state EXCEPT ![c] = "waiting"]
        /\ UNCHANGED <<frames, out, sock, since, got>>
    BY <1>7 DEF Shared!Connect
  <2>2. Kept("waiting", out[c], sock[c], got[c], frames, since[c])
    BY <1>0, <2>1 DEF Kept
  <2> QED BY <1>1, <1>2, <2>1, <2>2, OneKept
<1>8. CASE Shared!ClientReads(c)
  <2> DEFINE g == Append(got[c], Head(sock[c]))
             s == Tail(sock[c])
  <2>1. /\ sock[c] # << >> /\ got' = [got EXCEPT ![c] = g] /\ sock' = [sock EXCEPT ![c] = s]
        /\ UNCHANGED <<frames, out, state, since>>
    BY <1>8 DEF Shared!ClientReads
  <2>2. g \in Seq(DeviceHalves) /\ s \in Seq(DeviceHalves) /\ Len(s) <= Window
    BY <1>1, <2>1, BrokerConstants
  <2>3. g \o s = got[c] \o sock[c]
    BY <1>1, <2>1, HeadMoved
  <2> HIDE DEF g, s
  <2>4. Kept(state[c], out[c], s, g, frames, since[c])
    <3>1. state[c] \notin {"away", "waiting"}
      BY <1>0, <2>1 DEF Kept
    <3> QED BY <1>0, <2>3, <3>1 DEF Kept
  <2>5. /\ out' = [out EXCEPT ![c] = out[c]] /\ state' = [state EXCEPT ![c] = state[c]]
        /\ since' = [since EXCEPT ![c] = since[c]] /\ frames' = frames
        /\ got' = [got EXCEPT ![c] = g] /\ sock' = [sock EXCEPT ![c] = s]
    BY <1>2, <2>1
  <2>6. out[c] \in Seq(DeviceHalves) /\ state[c] \in States /\ since[c] \in 0 .. frames
    BY <1>1
  <2> QED BY <2>2, <2>4, <2>5, <2>6, OneKept
<1>9. CASE Shared!ClientCloses(c)
  <2>1. /\ state[c] = "in" /\ state' = [state EXCEPT ![c] = "closing"]
        /\ UNCHANGED <<frames, out, sock, since, got>>
    BY <1>9 DEF Shared!ClientCloses
  <2>2. Complete((got[c] \o sock[c]) \o out[c], frames, since[c])
    BY <1>0, <2>1 DEF Kept
  <2>3. Partial(got[c] \o sock[c], frames, since[c])
    BY <1>1, <2>2, FrontIsPartial
  <2>5. Kept("closing", out[c], sock[c], got[c], frames, since[c])
    BY <2>3 DEF Kept
  <2> QED BY <1>1, <1>2, <2>1, <2>5, OneKept
<1> QED BY <1>4, <1>5, <1>6, <1>7, <1>8, <1>9

LEMMA DownStep == DownInv /\ [Shared!Next]_Shared!vars => DownInv'
<1> SUFFICES ASSUME DownInv, [Shared!Next]_Shared!vars PROVE DownInv'
  OBVIOUS
<1>1. ASSUME UNCHANGED <<frames, Shared!clientVars>> PROVE DownInv'
  <2>1. UNCHANGED <<frames, state, since, out, sock, got>>
    BY <1>1 DEF Shared!clientVars
  <2> QED BY <2>1 DEF DownInv, DownTypes, Kept, Numbered
<1>2. CASE UNCHANGED Shared!vars
  BY <1>1, <1>2 DEF Shared!vars
<1>3. CASE Shared!Broadcast
  BY <1>3, BroadcastKeeps
<1>4. ASSUME NEW c \in Clients, \/ Shared!Accept(c) \/ Shared!Flush(c) \/ Shared!DropClient(c)
                                \/ Shared!Connect(c) \/ Shared!ClientReads(c) \/ Shared!ClientCloses(c)
      PROVE  DownInv'
  BY <1>4, OneClientKeeps
<1>5. ASSUME NEW c \in Clients, Shared!ClientWrites(c) \/ \E fails \in BOOLEAN : Shared!Relay(c, fails)
      PROVE  DownInv'
  <2>1. UNCHANGED <<frames, Shared!clientVars>>
    BY <1>5 DEF Shared!ClientWrites, Shared!Relay
  <2> QED BY <1>1, <2>1
<1> QED BY <1>2, <1>3, <1>4, <1>5 DEF Shared!Next

(* What a client has of the stream, from its beginning. *)
LEMMA GapFree == DownInv => Shared!ClientsGapFree
<1> SUFFICES ASSUME DownInv, NEW c \in Clients
             PROVE  LET all == [i \in 1..2 * (frames - since[c]) |->
                                  <<since[c] + ((i + 1) \div 2), 2 - (i % 2)>>]
                    IN  IF state[c] = "in" THEN got[c] \o sock[c] \o out[c] = all
                        ELSE state[c] \in {"closing", "left", "dropped"} => Shared!IsPrefix(got[c] \o sock[c], all)
  BY DEF Shared!ClientsGapFree
<1> DEFINE all == [i \in 1..2 * (frames - since[c]) |-> <<since[c] + ((i + 1) \div 2), 2 - (i % 2)>>]
<1>0. DownTypes /\ Kept(state[c], out[c], sock[c], got[c], frames, since[c])
  BY DEF DownInv
<1>1. /\ since[c] \in Nat /\ frames \in Nat /\ since[c] <= frames
      /\ out[c] \in Seq(DeviceHalves) /\ sock[c] \in Seq(DeviceHalves) /\ got[c] \in Seq(DeviceHalves)
  BY <1>0 DEF DownTypes
<1>2. PICK k \in Nat : k = 2 * (frames - since[c])
  BY <1>1
<1>3. all = [i \in 1..k |-> <<since[c] + ((i + 1) \div 2), 2 - (i % 2)>>]
  BY <1>2
<1>4. \A i \in 1..k : <<since[c] + ((i + 1) \div 2), 2 - (i % 2)>> \in DeviceHalves
  <2> TAKE i \in 1..k
  <2>1. (i + 1) \div 2 \in Nat /\ 2 - (i % 2) \in {1, 2}
    OBVIOUS
  <2> QED BY <1>1, <2>1 DEF DeviceHalves
<1>5. all \in Seq(DeviceHalves) /\ Len(all) = k
  <2>1. all \in [1..k -> DeviceHalves]
    BY <1>3, <1>4
  <2> HIDE DEF all
  <2> QED BY <2>1, <1>2
<1>6. \A i \in 1..k : all[i] = <<since[c] + ((i + 1) \div 2), 2 - (i % 2)>>
  BY <1>3
<1> HIDE DEF all
<1>7. ASSUME state[c] = "in" PROVE got[c] \o sock[c] \o out[c] = all
  <2> DEFINE w == (got[c] \o sock[c]) \o out[c]
  <2>1. w \in Seq(DeviceHalves) /\ Len(w) = k /\ Numbered(w, since[c])
    <3>1. got[c] \o sock[c] \in Seq(DeviceHalves)
      BY <1>1, ConcatElements
    <3>2. w \in Seq(DeviceHalves)
      BY <3>1, <1>1, ConcatElements
    <3>3. Complete(w, frames, since[c])
      BY <1>0, <1>7 DEF Kept
    <3> HIDE DEF w
    <3> QED BY <1>2, <3>2, <3>3 DEF Complete
  <2> HIDE DEF w
  <2>2. \A i \in 1..k : w[i] = all[i]
    <3>1. DOMAIN w = 1..k
      BY <2>1
    <3> QED BY <1>6, <2>1, <3>1 DEF Numbered
  <2>3. w = all
    BY <1>5, <2>1, <2>2
  <2> QED BY <2>3 DEF w
<1>8. ASSUME state[c] \in {"closing", "left", "dropped"} PROVE Shared!IsPrefix(got[c] \o sock[c], all)
  <2> DEFINE w == got[c] \o sock[c]
  <2>1. w \in Seq(DeviceHalves) /\ Len(w) <= k /\ Numbered(w, since[c])
    <3>1. w \in Seq(DeviceHalves)
      BY <1>1, ConcatElements
    <3>2. Partial(w, frames, since[c])
      BY <1>0, <1>8 DEF Kept
    <3> HIDE DEF w
    <3> QED BY <1>2, <3>1, <3>2 DEF Partial
  <2> HIDE DEF w
  <2>2. \A i \in 1..Len(w) : w[i] = all[i]
    <3>1. DOMAIN w = 1..Len(w) /\ 1..Len(w) \subseteq 1..k
      BY <1>2, <2>1
    <3> QED BY <1>6, <2>1, <3>1 DEF Numbered
  <2>3. SubSeq(w, 1, Len(w)) = SubSeq(all, 1, Len(w))
    BY <1>5, <2>1, <2>2
  <2> QED BY <1>5, <2>1, <2>3 DEF w, Shared!IsPrefix
<1> QED BY <1>7, <1>8 DEF all

-----------------------------------------------------------------------------
LEMMA UpStart == Shared!Init => UpInv
<1> SUFFICES ASSUME Shared!Init PROVE UpInv
  OBVIOUS
<1>1. /\ state = [c \in Clients |-> "away"] /\ written = [c \in Clients |-> 0]
      /\ up = [c \in Clients |-> << >>] /\ half = [c \in Clients |-> << >>]
      /\ pipe = << >> /\ breaks = 0
  BY DEF Shared!Init
<1>2. << >> \in Seq(ClientHalves) /\ Len(<< >>) = 0 /\ DOMAIN << >> = {} /\ << >> \o << >> = << >>
  OBVIOUS
<1>3. UpTypes
  BY <1>1, <1>2 DEF UpTypes
<1>4. HeardInv
  BY <1>1, <1>2 DEF HeardInv, Behind, Less, After, Written
<1>5. PipeInv
  BY <1>1, <1>2 DEF PipeInv, Pairs, InOrder, Before
<1> QED BY <1>3, <1>4, <1>5 DEF UpInv

(* What a client goes on to write, and what the parser keeps of whole        *)
(* frames' halves n.                                                         *)
LEMMA AppendMoved ==
    ASSUME NEW S, NEW h \in Seq(S), NEW u \in Seq(S), NEW x \in S
    PROVE  h \o Append(u, x) = Append(h \o u, x)
<1> DEFINE e == <<x>>
<1>1. e \in Seq(S)
  OBVIOUS
<1>2. h \o u \in Seq(S)
  BY ConcatElements
<1>3. Append(u, x) = u \o e
  BY AppendIsConcat
<1> DEFINE v == h \o u
<1>4. v \in Seq(S)
  BY <1>2
<1> HIDE DEF v
<1>5. Append(v, x) = v \o e
  BY <1>4, AppendIsConcat
<1> HIDE DEF e
<1>6. (h \o u) \o e = h \o (u \o e)
  BY <1>1, ConcatAssociative
<1> QED BY <1>3, <1>5, <1>6 DEF v

LEMMA Even == ASSUME NEW n \in Int, n % 2 = 0 PROVE n \div 2 \in Int /\ n = 2 * (n \div 2)
OBVIOUS
LEMMA EvenSum == ASSUME NEW a \in Int, NEW b \in Int, a % 2 = 0, b % 2 = 0 PROVE (a + b) % 2 = 0
<1>1. PICK x \in Int, y \in Int : a = 2 * x /\ b = 2 * y
  BY Even
<1> QED BY <1>1

LEMMA WritesOn ==
    ASSUME NEW c \in Clients, NEW w \in Nat, NEW q \in Seq(ClientHalves), Behind(q, c, w),
           NEW x \in ClientHalves, x = <<<<c, w \div 2 + 1>>, (w % 2) + 1>>
    PROVE  Behind(Append(q, x), c, w + 1) /\ Less(w + 1, Append(q, x)) = Less(w, q)
<1> DEFINE v == Append(q, x)
<1>1. PICK l \in Nat : l = Len(q) /\ DOMAIN q = 1 .. l
  OBVIOUS
<1>a. PICK k \in Nat : k = w - Len(q) /\ k % 2 = 0
  BY Zenon DEF Behind, Less, After
<1>2. k = w - l /\ k % 2 = 0 /\ w = k + l
  BY <1>1, <1>a
<1>3. \A i \in 1 .. l : q[i] = <<<<c, (k + i - 1) \div 2 + 1>>, ((k + i - 1) % 2) + 1>>
  BY <1>1, <1>a DEF Behind, Less, After, Written
<1>4. /\ v \in Seq(ClientHalves) /\ Len(v) = l + 1 /\ DOMAIN v = 1 .. l + 1
      /\ (\A i \in 1 .. l : v[i] = q[i]) /\ v[l + 1] = x
  BY <1>1
<1> HIDE DEF v
<1>5. ASSUME NEW i \in 1 .. l + 1 PROVE v[i] = <<<<c, (k + i - 1) \div 2 + 1>>, ((k + i - 1) % 2) + 1>>
  <2>1. CASE i = l + 1
    <3>1. k + i - 1 = w
      BY <1>2, <2>1
    <3> QED BY <1>4, <2>1, <3>1
  <2>2. CASE i # l + 1
    <3>1. i \in 1 .. l
      BY <2>2
    <3> QED BY <1>3, <1>4, <3>1
  <2> QED BY <2>1, <2>2
<1>6. w + 1 - Len(v) = k
  BY <1>2, <1>4
<1>7. Written(v, c, k)
  BY <1>4, <1>5 DEF Written
<1>8. Behind(v, c, w + 1)
  <2>1. After(v, c, k)
    BY <1>2, <1>7 DEF After
  <2> QED BY <1>6, <2>1 DEF Behind, Less
<1>9. Less(w + 1, v) = Less(w, q)
  BY <1>1, <1>2, <1>6 DEF Less
<1> QED BY <1>8, <1>9 DEF v

Taken(q, n, t, r, c, w) ==
    /\ t \in Seq(ClientHalves) /\ Len(t) = n /\ Written(t, c, w - Len(q))
    /\ r \in Seq(ClientHalves) /\ Behind(r, c, w) /\ w - Len(r) = w - Len(q) + n
LEMMA FramesTaken ==
    ASSUME NEW c \in Clients, NEW w \in Nat, NEW q \in Seq(ClientHalves), Behind(q, c, w),
           NEW n \in 0 .. Len(q), n % 2 = 0
    PROVE  Taken(q, n, SubSeq(q, 1, n), SubSeq(q, n + 1, Len(q)), c, w)
<1> DEFINE t == SubSeq(q, 1, n)
           r == SubSeq(q, n + 1, Len(q))
<1>1. PICK l \in Nat : l = Len(q) /\ DOMAIN q = 1 .. l
  OBVIOUS
<1>a. PICK k \in Nat : k = w - Len(q) /\ k % 2 = 0
  BY Zenon DEF Behind, Less, After
<1>2. k = w - l /\ k % 2 = 0 /\ w = k + l
  BY <1>1, <1>a
<1>3. \A i \in 1 .. l : q[i] = <<<<c, (k + i - 1) \div 2 + 1>>, ((k + i - 1) % 2) + 1>>
  BY <1>1, <1>a DEF Behind, Less, After, Written
<1>4. /\ t \in Seq(ClientHalves) /\ Len(t) = n /\ r \in Seq(ClientHalves) /\ Len(r) = Len(q) - n
      /\ (\A i \in 1 .. n : t[i] = q[i]) /\ (\A i \in 1 .. Len(q) - n : r[i] = q[n + i])
  BY Cut
<1> HIDE DEF t, r
<1>5. DOMAIN t = 1 .. n /\ DOMAIN r = 1 .. l - n /\ n \in Nat /\ n <= l /\ Len(r) = l - n
  BY <1>1, <1>4
<1>6. Written(t, c, k)
  <2> SUFFICES ASSUME NEW i \in 1 .. n
               PROVE  t[i] = <<<<c, (k + i - 1) \div 2 + 1>>, ((k + i - 1) % 2) + 1>>
    BY <1>5 DEF Written
  <2>1. i \in 1 .. l
    BY <1>5
  <2> QED BY <1>3, <1>4, <2>1
<1>7. w - Len(r) = k + n
  BY ONLY <1>2, <1>5, k \in Nat, l \in Nat
<1>8. Written(r, c, k + n)
  <2> SUFFICES ASSUME NEW i \in 1 .. l - n
               PROVE  r[i] = <<<<c, (k + n + i - 1) \div 2 + 1>>, ((k + n + i - 1) % 2) + 1>>
    BY <1>5 DEF Written
  <2>1. n + i \in 1 .. l /\ k + (n + i) - 1 = k + n + i - 1
    BY <1>5
  <2>2. r[i] = q[n + i]
    BY <1>1, <1>4
  <2>3. q[n + i] = <<<<c, (k + (n + i) - 1) \div 2 + 1>>, ((k + (n + i) - 1) % 2) + 1>>
    BY <1>3, <2>1
  <2> QED BY <2>1, <2>2, <2>3
<1>9. (k + n) % 2 = 0 /\ k + n \in Nat
  <2>1. k \in Int /\ n \in Int /\ k % 2 = 0 /\ n % 2 = 0 /\ k + n \in Nat
    BY <1>2, <1>5
  <2>2. (k + n) % 2 = 0
    BY ONLY <2>1, EvenSum
  <2> QED BY <2>1, <2>2
<1>10. Behind(r, c, w)
  <2>1. After(r, c, k + n)
    BY <1>8, <1>9 DEF After
  <2> QED BY <1>7, <2>1 DEF Behind, Less
<1>11. w - Len(q) = k
  BY <1>1, <1>2
<1>12. Taken(q, n, t, r, c, w)
  BY <1>4, <1>6, <1>7, <1>10, <1>11 DEF Taken
<1> QED BY <1>12 DEF t, r

(* Whole frames of one client behind what is on the pipe. *)
LEMMA PipeGrows ==
    ASSUME NEW c \in Clients, NEW p \in Seq(ClientHalves), NEW t \in Seq(ClientHalves),
           NEW k \in Nat, k % 2 = 0, Len(t) % 2 = 0,
           Pairs(p), InOrder(p), Before(p, c, k), Written(t, c, k), NEW v, v = p \o t
    PROVE  /\ v \in Seq(ClientHalves) /\ Pairs(v) /\ InOrder(v)
           /\ \A m : m = k + Len(t) => Before(v, c, m)
           /\ \A d \in Clients \ {c}, m \in Nat : Before(p, d, m) => Before(v, d, m)
<1>1. PICK a \in Nat : a = Len(p) /\ DOMAIN p = 1 .. a
  OBVIOUS
<1>2. PICK b \in Nat : b = Len(t) /\ DOMAIN t = 1 .. b
  OBVIOUS
<1>3. v \in Seq(ClientHalves) /\ Len(v) = a + b /\ DOMAIN v = 1 .. a + b
      /\ (\A i \in 1 .. a : v[i] = p[i]) /\ (\A i \in 1 .. b : v[a + i] = t[i])
  BY <1>1, <1>2, ConcatElements
<1>4. a % 2 = 0 /\ b % 2 = 0
  BY <1>1, <1>2 DEF Pairs
<1>e. PICK x \in Int, y \in Int, z \in Int : a = 2 * x /\ b = 2 * y /\ k = 2 * z
  <2>1. a \div 2 \in Int /\ a = 2 * (a \div 2) /\ b \div 2 \in Int /\ b = 2 * (b \div 2)
    BY ONLY <1>4, a \in Nat, b \in Nat, Even
  <2>2. k \div 2 \in Int /\ k = 2 * (k \div 2)
    BY ONLY k \in Nat, k % 2 = 0, Even
  <2> QED BY ONLY <2>1, <2>2
<1>5. \A i \in 1 .. b : t[i] = <<<<c, (k + i - 1) \div 2 + 1>>, ((k + i - 1) % 2) + 1>>
  BY <1>2 DEF Written
<1>6. \A i \in 1 .. b : /\ t[i][1] = <<c, (k + i - 1) \div 2 + 1>>
                        /\ t[i][1][1] = c /\ t[i][1][2] = (k + i - 1) \div 2 + 1
  BY <1>5
<1>7. \A i \in 1 .. a + b : i \in 1 .. a \/ (i - a \in 1 .. b /\ v[i] = t[i - a])
  <2> TAKE i \in 1 .. a + b
  <2> SUFFICES ASSUME i \notin 1 .. a PROVE i - a \in 1 .. b /\ v[i] = t[i - a]
    OBVIOUS
  <2>1. i - a \in 1 .. b /\ a + (i - a) = i
    OBVIOUS
  <2>2. v[a + (i - a)] = t[i - a]
    BY <1>3, <2>1
  <2> QED BY <2>1, <2>2
<1>8. Pairs(v)
  <2>1. (a + b) % 2 = 0
    BY <1>4, EvenSum
  <2>2. ASSUME NEW i \in 1 .. a + b, i % 2 = 1 PROVE v[i + 1] = <<v[i][1], 2>>
    <3>1. CASE i \in 1 .. a
      <4>1. i + 1 \in 1 .. a
        BY <1>4, <2>2, <3>1
      <4>2. p[i + 1] = <<p[i][1], 2>>
        BY <1>1, <2>2, <3>1 DEF Pairs
      <4> QED BY <1>3, <3>1, <4>1, <4>2
    <3>2. CASE i \notin 1 .. a
      <4>1. PICK j \in 1 .. b : j = i - a /\ v[i] = t[j]
        BY <1>7, <3>2
      <4>2. j % 2 = 1
        BY <1>e, <2>2, <4>1
      <4>3. j + 1 \in 1 .. b /\ a + (j + 1) = i + 1
        <5>1. j # b
          BY ONLY <1>4, <4>2
        <5> QED BY <4>1, <5>1
      <4>4. v[i + 1] = t[j + 1]
        BY <1>3, <4>3
      <4>5. (k + (j + 1) - 1) \div 2 = (k + j - 1) \div 2 /\ (k + (j + 1) - 1) % 2 = 1
        <5>1. PICK o \in Int : j = 2 * o + 1
          BY ONLY <4>2, j \in 1 .. b, b \in Nat
        <5> QED BY ONLY <1>e, <5>1, o \in Int, z \in Int
      <4>6. t[j + 1] = <<<<c, (k + (j + 1) - 1) \div 2 + 1>>, ((k + (j + 1) - 1) % 2) + 1>>
        BY <1>5, <4>3
      <4>7. t[j][1] = <<c, (k + j - 1) \div 2 + 1>>
        BY <1>6
      <4> QED BY <4>1, <4>4, <4>5, <4>6, <4>7
    <3> QED BY <3>1, <3>2
  <2> QED BY <1>3, <2>1, <2>2 DEF Pairs
<1>9. ASSUME NEW i \in 1 .. a, v[i][1][1] = c PROVE v[i][1][2] \in Nat /\ 2 * v[i][1][2] <= k
  <2>1. p[i] \in ClientHalves /\ v[i] = p[i]
    BY <1>1, <1>3
  <2>2. 2 * p[i][1][2] <= k
    BY <1>1, <1>9, <2>1 DEF Before
  <2>3. p[i][1][2] \in Nat
    BY <2>1 DEF ClientHalves
  <2> QED BY <2>1, <2>2, <2>3
<1>10. InOrder(v)
  <2> SUFFICES ASSUME NEW i \in 1 .. a + b, NEW j \in 1 .. a + b, i < j, v[i][1][1] = v[j][1][1]
               PROVE  v[i][1][2] <= v[j][1][2]
    BY <1>3 DEF InOrder
  <2>1. CASE j \in 1 .. a
    <3>1. i \in 1 .. a
      BY <2>1
    <3>2. v[i] = p[i] /\ v[j] = p[j]
      BY <1>3, <2>1, <3>1
    <3> QED BY <1>1, <2>1, <3>1, <3>2 DEF InOrder
  <2>2. CASE i \in 1 .. a /\ j \notin 1 .. a
    <3>1. PICK n \in 1 .. b : n = j - a /\ v[j] = t[n]
      BY <1>7, <2>2
    <3>2. v[j][1][1] = c /\ v[j][1][2] = (k + n - 1) \div 2 + 1
      BY <1>6, <3>1
    <3>3. v[i][1][2] \in Nat /\ 2 * v[i][1][2] <= k
      BY <1>9, <2>2, <3>2
    <3>4. PICK e \in Nat : e = v[i][1][2]
      BY <3>3
    <3>5. 2 * e <= k => e <= (k + n - 1) \div 2 + 1
      BY ONLY e \in Nat, k \in Nat, n \in 1 .. b, b \in Nat
    <3> QED BY <3>2, <3>3, <3>4, <3>5
  <2>3. CASE i \notin 1 .. a /\ j \notin 1 .. a
    <3>1. PICK m \in 1 .. b : m = i - a /\ v[i] = t[m]
      BY <1>7, <2>3
    <3>2. PICK n \in 1 .. b : n = j - a /\ v[j] = t[n]
      BY <1>7, <2>3
    <3>3. v[i][1][2] = (k + m - 1) \div 2 + 1 /\ v[j][1][2] = (k + n - 1) \div 2 + 1
      BY <1>6, <3>1, <3>2
    <3>4. m < n
      BY <3>1, <3>2
    <3>5. (k + m - 1) \div 2 <= (k + n - 1) \div 2
      BY <3>4
    <3> QED BY <3>3, <3>5
  <2> QED BY <2>1, <2>2, <2>3
<1>11. Before(v, c, k + b)
  <2> SUFFICES ASSUME NEW i \in 1 .. a + b, v[i][1][1] = c PROVE 2 * v[i][1][2] <= k + b
    BY <1>3 DEF Before
  <2>1. CASE i \in 1 .. a
    <3>1. PICK n \in Nat : n = v[i][1][2] /\ 2 * n <= k
      BY <1>9, <2>1
    <3>2. 2 * n <= k + b
      BY ONLY <3>1, n \in Nat, k \in Nat, b \in Nat
    <3> QED BY <3>1, <3>2
  <2>2. CASE i \notin 1 .. a
    <3>1. PICK m \in 1 .. b : m = i - a /\ v[i] = t[m]
      BY <1>7, <2>2
    <3>2. v[i][1][2] = (k + m - 1) \div 2 + 1
      BY <1>6, <3>1
    <3>3. 2 * ((k + m - 1) \div 2 + 1) <= k + b
      <4>1. PICK n \in Int : n = (k + m - 1) \div 2 /\ 2 * n <= k + m - 1
        OBVIOUS
      <4>2. 2 * n <= 2 * z + 2 * y - 1
        BY <1>e, <4>1
      <4>3. 2 * (n + 1) <= 2 * z + 2 * y
        BY <4>2
      <4> QED BY <1>e, <4>1, <4>3
    <3> QED BY <3>2, <3>3
  <2> QED BY <2>1, <2>2
<1>12. ASSUME NEW d \in Clients \ {c}, NEW m \in Nat, Before(p, d, m) PROVE Before(v, d, m)
  <2> SUFFICES ASSUME NEW i \in 1 .. a + b, v[i][1][1] = d PROVE 2 * v[i][1][2] <= m
    BY <1>3 DEF Before
  <2>1. i \in 1 .. a
    BY <1>6, <1>7
  <2>2. v[i] = p[i]
    BY <1>3, <2>1
  <2> QED BY <1>1, <1>12, <2>1, <2>2 DEF Before
<1> QED BY <1>2, <1>3, <1>8, <1>10, <1>11, <1>12

(* A step that neither writes nor relays, and listens to no more clients.    *)
LEMMA UpSame ==
    ASSUME UpInv, UNCHANGED <<written, up, pipe, breaks>>,
           state' \in [Clients -> {"away", "waiting", "in", "closing", "left", "dropped"}],
           half' \in [Clients -> Seq(ClientHalves)],
           \A c \in Clients : Heard(c)' => Heard(c) /\ half'[c] = half[c]
    PROVE  UpInv'
<1>1. UpTypes'
  BY DEF UpInv, UpTypes
<1>2. HeardInv'
  BY DEF UpInv, HeardInv
<1>3. \A c \in Clients : Heard(c)' => Relayed(c)' = Relayed(c)
  BY DEF Relayed
<1>4. PipeInv'
  BY <1>3 DEF UpInv, PipeInv
<1> QED BY <1>1, <1>2, <1>4 DEF UpInv

LEMMA QuietKeeps ==
    ASSUME UpInv,
           \/ Shared!Broadcast
           \/ \E c \in Clients : \/ Shared!Accept(c) \/ Shared!Flush(c) \/ Shared!DropClient(c)
                                 \/ Shared!Connect(c) \/ Shared!ClientReads(c) \/ Shared!ClientCloses(c)
    PROVE  UpInv'
<1>0. UpTypes
  BY DEF UpInv
<1>1. ASSUME Shared!Broadcast PROVE UpInv'
  <2> DEFINE open == {c \in Clients : state[c] = "in"}
             kept == {c \in open : Shared!Room(c)}
  <2>1. /\ UNCHANGED <<written, up, half, pipe, breaks>>
        /\ state' = [c \in Clients |-> IF c \in open \ kept THEN "dropped" ELSE state[c]]
    BY <1>1 DEF Shared!Broadcast, Shared!upVars, Shared!AfterBehind
  <2> HIDE DEF open, kept
  <2>2. state' \in [Clients -> {"away", "waiting", "in", "closing", "left", "dropped"}]
    BY <1>0, <2>1 DEF UpTypes
  <2>3. \A c \in Clients : Heard(c)' => Heard(c)
    BY <2>1 DEF Heard
  <2>4. half' \in [Clients -> Seq(ClientHalves)]
    BY <1>0, <2>1 DEF UpTypes
  <2> QED BY <2>1, <2>2, <2>3, <2>4, UpSame
<1>2. ASSUME NEW c \in Clients, NEW st \in {"waiting", "in", "closing"},
             UNCHANGED <<written, up, half, pipe, breaks>>,
             \/ Heard(c) /\ state' = [state EXCEPT ![c] = st]
             \/ state' = state
      PROVE  UpInv'
  <2>1. state' \in [Clients -> {"away", "waiting", "in", "closing", "left", "dropped"}]
    BY <1>0, <1>2 DEF UpTypes
  <2>2. half' \in [Clients -> Seq(ClientHalves)]
    BY <1>0, <1>2 DEF UpTypes
  <2>3. ASSUME NEW d \in Clients, Heard(d)' PROVE Heard(d) /\ half'[d] = half[d]
    <3>1. CASE d # c
      BY <1>0, <1>2, <2>3, <3>1 DEF UpTypes, Heard
    <3>2. CASE d = c
      BY <1>0, <1>2, <2>3, <3>2 DEF UpTypes, Heard
    <3> QED BY <3>1, <3>2
  <2> QED BY <1>2, <2>1, <2>2, <2>3, UpSame
<1>3. ASSUME NEW c \in Clients, Shared!Accept(c) PROVE UpInv'
  <2>1. Heard(c)
    BY <1>3 DEF Shared!Accept, Heard
  <2>2. /\ UNCHANGED <<written, up, half, pipe, breaks>> /\ state' = [state EXCEPT ![c] = "in"]
    BY <1>3 DEF Shared!Accept, Shared!upVars
  <2> QED BY <1>2, <2>1, <2>2
<1>4. ASSUME NEW c \in Clients, Shared!Connect(c) PROVE UpInv'
  <2>1. Heard(c)
    BY <1>4 DEF Shared!Connect, Heard
  <2>2. /\ UNCHANGED <<written, up, half, pipe, breaks>> /\ state' = [state EXCEPT ![c] = "waiting"]
    BY <1>4 DEF Shared!Connect, Shared!upVars
  <2> QED BY <1>2, <2>1, <2>2
<1>5. ASSUME NEW c \in Clients, Shared!ClientCloses(c) PROVE UpInv'
  <2>1. Heard(c)
    BY <1>5 DEF Shared!ClientCloses, Heard
  <2>2. /\ UNCHANGED <<written, up, half, pipe, breaks>> /\ state' = [state EXCEPT ![c] = "closing"]
    BY <1>5 DEF Shared!ClientCloses, Shared!upVars
  <2> QED BY <1>2, <2>1, <2>2
<1>6. ASSUME NEW c \in Clients, Shared!DropClient(c) PROVE UpInv'
  <2>1. /\ UNCHANGED <<written, up, pipe, breaks>> /\ state' = [state EXCEPT ![c] = "left"]
        /\ half' = [half EXCEPT ![c] = << >>]
    BY <1>6 DEF Shared!DropClient
  <2>2. state' \in [Clients -> {"away", "waiting", "in", "closing", "left", "dropped"}]
    BY <1>0, <2>1 DEF UpTypes
  <2>3. half' \in [Clients -> Seq(ClientHalves)]
    <3>1. << >> \in Seq(ClientHalves)
      OBVIOUS
    <3> QED BY <3>1, <1>0, <2>1 DEF UpTypes
  <2>4. ASSUME NEW d \in Clients, Heard(d)' PROVE Heard(d) /\ half'[d] = half[d]
    <3>1. d # c
      BY <1>0, <2>1, <2>4 DEF UpTypes, Heard
    <3> QED BY <1>0, <2>1, <2>4, <3>1 DEF UpTypes, Heard
  <2> QED BY <2>1, <2>2, <2>3, <2>4, UpSame
<1>7. ASSUME NEW c \in Clients, Shared!Flush(c) \/ Shared!ClientReads(c) PROVE UpInv'
  <2>1. /\ UNCHANGED <<written, up, half, pipe, breaks>> /\ state' = state /\ "waiting" \in {"waiting", "in", "closing"}
    BY <1>7 DEF Shared!Flush, Shared!ClientReads, Shared!upVars
  <2> QED BY <1>2, <2>1
<1> QED BY <1>1, <1>3, <1>4, <1>5, <1>6, <1>7

LEMMA WriteKeeps == ASSUME UpInv, NEW c \in Clients, Shared!ClientWrites(c) PROVE UpInv'
<1> DEFINE x == <<<<c, written[c] \div 2 + 1>>, (written[c] % 2) + 1>>
           q == half[c] \o up[c]
<1>0. UpTypes /\ HeardInv /\ PipeInv
  BY DEF UpInv
<1>1. /\ Heard(c) /\ up' = [up EXCEPT ![c] = Append(up[c], x)]
      /\ written' = [written EXCEPT ![c] = written[c] + 1]
      /\ UNCHANGED <<state, half, pipe, breaks>>
  BY DEF Shared!ClientWrites, Shared!clientVars, Heard
<1>2. written[c] \in Nat /\ up[c] \in Seq(ClientHalves) /\ half[c] \in Seq(ClientHalves)
  BY <1>0 DEF UpTypes
<1>3. x \in ClientHalves
  <2>1. written[c] \div 2 + 1 \in Nat /\ (written[c] % 2) + 1 \in {1, 2}
    BY <1>2
  <2> QED BY <2>1 DEF ClientHalves
<1>4. q \in Seq(ClientHalves)
  BY <1>2, ConcatElements
<1> DEFINE w == written[c]
           u == up[c]
           h == half[c]
<1>5. Behind(q, c, w)
  BY <1>0, <1>1 DEF HeardInv
<1>6. x = <<<<c, w \div 2 + 1>>, (w % 2) + 1>> /\ w \in Nat /\ u \in Seq(ClientHalves) /\ h \in Seq(ClientHalves)
  BY <1>2
<1>7. half'[c] \o up'[c] = Append(q, x)
  <2>1. half'[c] = h /\ up'[c] = Append(u, x)
    BY <1>0, <1>1 DEF UpTypes
  <2>2. h \o Append(u, x) = Append(h \o u, x)
    <3>1. x \in ClientHalves /\ u \in Seq(ClientHalves) /\ h \in Seq(ClientHalves)
      BY <1>3, <1>6
    <3> HIDE DEF x, u, h
    <3> QED BY ONLY <3>1, AppendMoved
  <2>3. q = h \o u
    OBVIOUS
  <2> HIDE DEF q, x, u, h
  <2> QED BY <2>1, <2>2, <2>3
<1>8. Behind(Append(q, x), c, w + 1) /\ Less(w + 1, Append(q, x)) = Less(w, q)
  <2> HIDE DEF q, w, x
  <2> QED BY <1>3, <1>4, <1>5, <1>6, WritesOn
<1>9. \A d \in Clients : /\ Heard(d)' = Heard(d)
                         /\ d # c => up'[d] = up[d] /\ written'[d] = written[d] /\ half'[d] = half[d]
  BY <1>0, <1>1 DEF UpTypes, Heard
<1>10. written'[c] = w + 1
  BY <1>0, <1>1 DEF UpTypes
<1>11. UpTypes'
  <2>1. Append(up[c], x) \in Seq(ClientHalves) /\ written[c] + 1 \in Nat
    BY <1>2, <1>3
  <2> HIDE DEF x
  <2> QED BY <1>0, <1>1, <2>1 DEF UpTypes
<1>12. HeardInv'
  <2> SUFFICES ASSUME NEW d \in Clients, Heard(d)' PROVE Behind(half'[d] \o up'[d], d, written'[d])
    BY DEF HeardInv
  <2>1. CASE d = c
    <3> HIDE DEF q, w, x
    <3> QED BY <1>7, <1>8, <1>10, <2>1
  <2>2. CASE d # c
    BY <1>0, <1>9, <2>2 DEF HeardInv
  <2> QED BY <2>1, <2>2
<1>13. \A d \in Clients : Relayed(d)' = Relayed(d)
  <2> TAKE d \in Clients
  <2>1. CASE d = c
    <3>1. Relayed(c)' = Less(w + 1, Append(q, x))
      <4> HIDE DEF q, w, x
      <4> QED BY <1>7, <1>10 DEF Relayed
    <3>2. Relayed(c) = Less(w, q)
      BY DEF Relayed
    <3> QED BY <1>8, <2>1, <3>1, <3>2
  <2>2. CASE d # c
    BY <1>9, <2>2 DEF Relayed
  <2> QED BY <2>1, <2>2
<1>14. PipeInv'
  BY <1>0, <1>1, <1>9, <1>13 DEF PipeInv
<1> QED BY <1>11, <1>12, <1>14 DEF UpInv

(* poll() passes the whole frames on and keeps the rest, wherever a bulk     *)
(* write fails.                                                              *)
LEMMA RelayKeeps ==
    ASSUME UpInv, NEW c \in Clients, NEW fails \in BOOLEAN, Shared!Relay(c, fails) PROVE UpInv'
<1> DEFINE w == written[c]
           q == half[c] \o up[c]
           n == Len(q) - (Len(q) % 2)
           t == SubSeq(q, 1, n)
           r == SubSeq(q, n + 1, Len(q))
<1>0. UpTypes /\ HeardInv /\ PipeInv
  BY DEF UpInv
<1>1. w \in Nat /\ up[c] \in Seq(ClientHalves) /\ half[c] \in Seq(ClientHalves)
  BY <1>0 DEF UpTypes
<1>2. q \in Seq(ClientHalves)
  BY <1>1, ConcatElements
<1>3. n \in 0 .. Len(q) /\ n % 2 = 0
  <2> DEFINE l == Len(q)
  <2>1. l \in Nat
    <3> HIDE DEF q
    <3> QED BY <1>2
  <2> HIDE DEF l
  <2>2. l - (l % 2) \in 0 .. l /\ (l - (l % 2)) % 2 = 0
    BY <2>1
  <2> QED BY <2>2 DEF l
<1>4. Heard(c)
  BY DEF Shared!Relay, Heard
<1>5. Behind(q, c, w)
  BY <1>0, <1>4 DEF HeardInv
<1> HIDE DEF q, n, w
<1>6. /\ t \in Seq(ClientHalves) /\ Len(t) = n /\ Written(t, c, w - Len(q))
      /\ r \in Seq(ClientHalves) /\ Behind(r, c, w) /\ w - Len(r) = w - Len(q) + n
  <2>1. Taken(q, n, t, r, c, w)
    BY <1>1, <1>2, <1>3, <1>5, FramesTaken
  <2> HIDE DEF t, r
  <2> QED BY <2>1 DEF Taken
<1>7. Shared!WholeFrames(q) = t
  BY DEF Shared!WholeFrames, n
<1> HIDE DEF t
<1>8. /\ fails => t # << >>
      /\ half' = [half EXCEPT ![c] = SubSeq(q, Len(t) + 1, Len(q))]
      /\ pipe' = pipe \o IF fails THEN <<Head(t)>> \o SubSeq(t, 3, Len(t)) ELSE t
      /\ up' = [up EXCEPT ![c] = << >>]
      /\ breaks' = breaks + (IF fails THEN 1 ELSE 0)
      /\ UNCHANGED <<state, written>>
  BY <1>7 DEF Shared!Relay, Shared!clientVars, q
<1>9. half' = [half EXCEPT ![c] = r]
  BY <1>6, <1>8
<1> HIDE DEF r
<1>10. half'[c] \o up'[c] = r /\ written'[c] = w
  <2>1. half'[c] = r /\ up'[c] = << >> /\ written'[c] = w
    BY <1>0, <1>8, <1>9 DEF UpTypes, w
  <2>2. r \o << >> = r
    BY <1>6, ConcatEmptySeq
  <2> QED BY <2>1, <2>2
<1>11. \A d \in Clients : /\ Heard(d)' = Heard(d)
                          /\ d # c => up'[d] = up[d] /\ written'[d] = written[d] /\ half'[d] = half[d]
  BY <1>0, <1>8, <1>9 DEF UpTypes, Heard
<1>12. HeardInv'
  <2> SUFFICES ASSUME NEW d \in Clients, Heard(d)' PROVE Behind(half'[d] \o up'[d], d, written'[d])
    BY DEF HeardInv
  <2>1. CASE d = c
    BY <1>6, <1>10, <2>1
  <2>2. CASE d # c
    BY <1>0, <1>11, <2>2 DEF HeardInv
  <2> QED BY <2>1, <2>2
<1>13. pipe' \in Seq(ClientHalves)
  <2>1. pipe \in Seq(ClientHalves)
    BY <1>0 DEF UpTypes
  <2>2. CASE ~fails
    <3>1. pipe' = pipe \o t
      BY <1>8, <2>2
    <3> QED BY <1>6, <2>1, <3>1, ConcatElements
  <2>3. CASE fails
    <3> DEFINE a == <<Head(t)>>
               m == Len(t)
               b == SubSeq(t, 3, m)
    <3>1. t # << >> /\ m \in Nat /\ m % 2 = 0
      BY <1>3, <1>6, <1>8, <2>3
    <3>2. m >= 2
      BY <1>6, <3>1
    <3>3. a \in Seq(ClientHalves)
      BY <1>6, <3>1
    <3>4. b \in Seq(ClientHalves)
      <4>1. 3 \in Nat \ {0} /\ 3 <= m + 1 /\ m <= Len(t)
        BY <3>1, <3>2
      <4> HIDE DEF m
      <4> QED BY <1>6, <3>1, <4>1, SubSeqElements
    <3>5. pipe' = pipe \o (a \o b)
      BY <1>8, <2>3
    <3> HIDE DEF a, b
    <3>6. a \o b \in Seq(ClientHalves)
      BY <3>3, <3>4, ConcatElements
    <3> QED BY <2>1, <3>5, <3>6, ConcatElements
  <2> QED BY <2>2, <2>3
<1>14. UpTypes'
  <2>1. << >> \in Seq(ClientHalves)
    OBVIOUS
  <2>2. half' \in [Clients -> Seq(ClientHalves)]
    BY <1>0, <1>6, <1>9 DEF UpTypes
  <2>3. up' \in [Clients -> Seq(ClientHalves)]
    BY <1>0, <1>8, <2>1 DEF UpTypes
  <2>4. breaks' \in Nat
    BY <1>0, <1>8 DEF UpTypes
  <2> QED BY <1>0, <1>8, <1>13, <2>2, <2>3, <2>4 DEF UpTypes
<1>15. Relayed(c) = w - Len(q) /\ Relayed(c)' = w - Len(q) + n /\ Relayed(c) \in Nat /\ Relayed(c) % 2 = 0
  <2>1. Relayed(c) = w - Len(q)
    BY DEF Relayed, Less, w, q
  <2>2. Relayed(c)' = w - Len(r)
    <3>1. Relayed(c)' = Less(w, r)
      BY <1>10 DEF Relayed
    <3> QED BY <3>1 DEF Less
  <2>3. After(q, c, Relayed(c))
    BY <1>5, <2>1 DEF Behind, Less
  <2> QED BY <1>6, <2>1, <2>2, <2>3 DEF After
<1>16. PipeInv'
  <2> SUFFICES ASSUME breaks' = 0
               PROVE  /\ Pairs(pipe') /\ InOrder(pipe')
                      /\ \A d \in Clients : Heard(d)' => Before(pipe', d, Relayed(d)')
    BY DEF PipeInv
  <2>1. breaks = 0 /\ ~fails
    BY <1>0, <1>8 DEF UpTypes
  <2>2. pipe' = pipe \o t /\ pipe \in Seq(ClientHalves)
    BY <1>0, <1>8, <2>1 DEF UpTypes
  <2>3. Pairs(pipe) /\ InOrder(pipe) /\ \A d \in Clients : Heard(d) => Before(pipe, d, Relayed(d))
    BY <1>0, <2>1 DEF PipeInv
  <2>4. PICK k \in Nat : k = Relayed(c)
    BY <1>15
  <2>5. k % 2 = 0 /\ Before(pipe, c, k) /\ Written(t, c, k) /\ Len(t) % 2 = 0 /\ Relayed(c)' = k + Len(t)
    BY <1>3, <1>4, <1>6, <1>15, <2>3, <2>4
  <2>6. /\ Pairs(pipe') /\ InOrder(pipe')
        /\ \A m : m = k + Len(t) => Before(pipe', c, m)
        /\ \A d \in Clients \ {c}, m \in Nat : Before(pipe, d, m) => Before(pipe', d, m)
    BY <1>6, <2>2, <2>3, <2>5, PipeGrows
  <2>7. ASSUME NEW d \in Clients, Heard(d)' PROVE Before(pipe', d, Relayed(d)')
    <3>1. CASE d = c
      BY <2>5, <2>6, <3>1
    <3>2. CASE d # c
      <4>1. Heard(d) /\ Relayed(d)' = Relayed(d)
        BY <1>11, <2>7, <3>2 DEF Relayed
      <4>2. Relayed(d) \in Nat
        BY <1>0, <4>1 DEF HeardInv, Behind, Less, After, Relayed
      <4>3. Before(pipe, d, Relayed(d))
        BY <2>3, <4>1
      <4> QED BY <2>6, <3>2, <4>1, <4>2, <4>3
    <3> QED BY <3>1, <3>2
  <2> QED BY <2>6, <2>7
<1> QED BY <1>12, <1>14, <1>16 DEF UpInv

LEMMA UpStep == UpInv /\ [Shared!Next]_Shared!vars => UpInv'
<1> SUFFICES ASSUME UpInv, [Shared!Next]_Shared!vars PROVE UpInv'
  OBVIOUS
<1>1. CASE UNCHANGED Shared!vars
  <2>1. UNCHANGED <<state, written, up, half, pipe, breaks>>
    BY <1>1 DEF Shared!vars, Shared!clientVars, Shared!upVars
  <2>2. \A c \in Clients : Heard(c)' => Heard(c)
    BY <2>1 DEF Heard
  <2> QED BY <2>1, <2>2, UpSame DEF UpInv, UpTypes
<1>2. CASE Shared!Next
  BY <1>2, QuietKeeps, WriteKeeps, RelayKeeps DEF Shared!Next
<1> QED BY <1>1, <1>2

LEMMA PipeStaysWhole == UpInv => Shared!PipeWhole
<1> SUFFICES ASSUME UpInv, breaks = 0
             PROVE  /\ \A i \in 1..Len(pipe) : i % 2 = 1 => i < Len(pipe) /\ pipe[i + 1] = <<pipe[i][1], 2>>
                    /\ \A i, j \in 1..Len(pipe) : i < j /\ pipe[i][1][1] = pipe[j][1][1]
                                                   => pipe[i][1][2] <= pipe[j][1][2]
  BY DEF Shared!PipeWhole
<1>1. Pairs(pipe) /\ InOrder(pipe) /\ pipe \in Seq(ClientHalves)
  BY DEF UpInv, PipeInv, UpTypes
<1>2. PICK l \in Nat : l = Len(pipe) /\ DOMAIN pipe = 1..l
  BY <1>1
<1>3. l % 2 = 0
  BY <1>1, <1>2 DEF Pairs
<1>4. ASSUME NEW i \in 1..l, i % 2 = 1 PROVE i < l
  BY <1>3, <1>4
<1> QED BY <1>1, <1>2, <1>4 DEF Pairs, InOrder

(* For any number of clients, any limit and any window: a client gets every  *)
(* frame of the device from when it was accepted, in order, until its end,   *)
(* and the pipe whole frames of the clients unless a bulk write failed       *)
(* (usbproto_broker.cpp, broadcast and poll).                                *)
THEOREM RelayStaysWhole == Shared!Spec => []RelayWhole
<1>1. DownInv /\ UpInv => RelayWhole
  BY GapFree, PipeStaysWhole DEF RelayWhole, Shared!RelayWhole
<1> QED BY <1>1, DownStart, DownStep, UpStart, UpStep, PTL DEF Shared!Spec

-----------------------------------------------------------------------------
(* The host's channel library. *)
Data == Nat \X Nat
Wire == [flag : {"OPEN", "DATA", "CLOSE"}, data : Data, part : {"whole", "head", "tail", "stub"}]
Object == [open : BOOLEAN, queue : Seq(Data)]
Made == 0 .. Len(objects)

HostTypes ==
    /\ conn \in Nat /\ number \in Nat /\ linked \in BOOLEAN
    /\ toHost \in Seq(Wire)
    /\ objects \in Seq(Object)
    /\ table \in Made /\ held \in Made /\ found \in Made
    /\ tool \in {"idle", "announce", "say", "remove", "ended"}
    /\ rx \in {"idle", "OPEN", "DATA", "CLOSE", "pop"}
    /\ rx = "DATA" => frame \in Wire
    /\ managed \in BOOLEAN /\ crossed \in BOOLEAN /\ cut \in BOOLEAN

(* Who may have a closed channel, and who is about to take it out. *)
TableInv ==
    /\ rx = "pop" => found # 0 /\ ~objects[found].open
    /\ tool \in {"say", "remove"} => held # 0 /\ ~objects[held].open
    /\ ~crossed /\ tool \in {"idle", "announce"} /\ held # 0 /\ objects[held].open => table = held
    /\ ~crossed /\ table # 0 /\ ~objects[table].open =>
           \/ rx = "pop" /\ table = found
           \/ tool \in {"say", "remove"} /\ table = held

-----------------------------------------------------------------------------
(* The stream of the device: b is the datum after a, the device would send   *)
(* the one after a next, and what is in the pipe from k on goes on after a.  *)
Follows(a, b) ==
    \/ b = <<a[1], a[2] + 1>>
    \/ b[1] > a[1] /\ b[2] = 1
Last(q) == q[Len(q)]

(* A frame that ends a datum, or loses its end. *)
Datum(f) == f.flag = "DATA" /\ f.part # "head"
DeviceFollows(a, c, n, l) ==
    /\ a[1] <= c
    /\ l => IF a[1] = c THEN a[2] = n ELSE n = 0
NoneBefore(k, j, p) == \A i \in DOMAIN p : k <= i /\ i < j => ~Datum(p[i])
Awaits(a, k, p, c, n, l) ==
    /\ \A j \in DOMAIN p : k <= j /\ Datum(p[j]) /\ NoneBefore(k, j, p) => Follows(a, p[j].data)
    /\ NoneBefore(k, Len(p) + 1, p) => DeviceFollows(a, c, n, l)
OnFrom(a, k) == Awaits(a, k, toHost, conn, number, linked)

(* The data in the pipe are a stretch of that stream. *)
HostPipeInv ==
    /\ \A k \in DOMAIN toHost : Datum(toHost[k]) => toHost[k].data # Host!End /\ OnFrom(toHost[k].data, k + 1)
    /\ rx = "DATA" => frame.data # Host!End /\ (~cut => OnFrom(frame.data, 1))

(* Each channel has a stretch of it, which only an End ends. *)
Chain(q) == \A i \in 2 .. Len(q) : q[i - 1] # Host!End /\ (q[i] # Host!End => Follows(q[i - 1], q[i]))
Chains == \A o \in DOMAIN objects : Chain(objects[o].queue)
Goes(o) == objects[o].queue # << >>

(* The channel in the table goes on with the next datum of the pipe; one     *)
(* that was made after the receive thread's look has nothing yet.            *)
HostQueueInv ==
    /\ rx # "idle" /\ table \notin {0, found} => ~Goes(table)
    /\ rx = "idle" /\ table # 0 /\ Goes(table) =>
           Last(objects[table].queue) # Host!End /\ (~cut => OnFrom(Last(objects[table].queue), 1))
    /\ rx \in {"OPEN", "DATA", "CLOSE"} /\ found # 0 /\ Goes(found) =>
           /\ Last(objects[found].queue) # Host!End
           /\ rx = "DATA" => Follows(Last(objects[found].queue), frame.data)
           /\ rx = "OPEN" /\ ~cut => OnFrom(Last(objects[found].queue), 1)

HostInv == HostTypes /\ TableInv /\ HostPipeInv /\ (managed => Chains /\ HostQueueInv)

-----------------------------------------------------------------------------
(* Sequences *)

(* Elements of a longer sequence. *)
LEMMA AppendElements ==
    ASSUME NEW S, NEW q \in Seq(S), NEW e \in S
    PROVE  /\ Append(q, e) \in Seq(S)
           /\ Append(q, e) # << >>
           /\ Len(q) \in Nat
           /\ DOMAIN q = 1 .. Len(q)
           /\ DOMAIN Append(q, e) = 1 .. (Len(q) + 1)
           /\ Len(Append(q, e)) = Len(q) + 1
           /\ \A i \in DOMAIN q : Append(q, e)[i] = q[i]
           /\ Append(q, e)[Len(q) + 1] = e
    OBVIOUS

(* Elements of a tail. *)
LEMMA TailElements ==
    ASSUME NEW S, NEW q \in Seq(S), q # << >>
    PROVE  /\ Tail(q) \in Seq(S)
           /\ Head(q) \in S
           /\ Head(q) = q[1]
           /\ 1 \in DOMAIN q
           /\ DOMAIN q = 1 .. Len(q)
           /\ Len(q) \in Nat \ {0}
           /\ DOMAIN Tail(q) = 1 .. (Len(q) - 1)
           /\ Len(Tail(q)) = Len(q) - 1
           /\ \A i \in DOMAIN Tail(q) : Tail(q)[i] = q[i + 1]
    OBVIOUS

(* Elements of a sequence and two more. *)
LEMMA PairElements ==
    ASSUME NEW S, NEW q \in Seq(S), NEW e \in S, NEW f \in S
    PROVE  /\ q \o <<e, f>> \in Seq(S)
           /\ Len(q) \in Nat
           /\ DOMAIN q = 1 .. Len(q)
           /\ DOMAIN (q \o <<e, f>>) = 1 .. (Len(q) + 2)
           /\ Len(q \o <<e, f>>) = Len(q) + 2
           /\ \A i \in DOMAIN q : (q \o <<e, f>>)[i] = q[i]
           /\ (q \o <<e, f>>)[Len(q) + 1] = e
           /\ (q \o <<e, f>>)[Len(q) + 2] = f
    OBVIOUS

-----------------------------------------------------------------------------
(* The stream *)

(* What the device puts into the pipe without a datum changes nothing. *)
LEMMA AwaitsQuietly ==
    ASSUME NEW p \in Seq(Wire), NEW q \in Seq(Wire), Len(p) <= Len(q),
           \A i \in DOMAIN p : q[i] = p[i],
           \A i \in DOMAIN q : i > Len(p) => ~Datum(q[i]),
           NEW a, NEW k \in Nat, NEW c, NEW n, NEW l, NEW c2, NEW n2, NEW l2,
           DeviceFollows(a, c, n, l) => DeviceFollows(a, c2, n2, l2),
           Awaits(a, k, p, c, n, l)
    PROVE  Awaits(a, k, q, c2, n2, l2)
<1>1. DOMAIN p = 1 .. Len(p) /\ DOMAIN q = 1 .. Len(q) /\ Len(p) \in Nat /\ Len(q) \in Nat
  OBVIOUS
<1>2. \A j \in DOMAIN q : Datum(q[j]) => j \in DOMAIN p
  BY <1>1
<1>3. \A j \in DOMAIN p : NoneBefore(k, j, q) => NoneBefore(k, j, p)
  BY <1>1 DEF NoneBefore
<1>4. NoneBefore(k, Len(q) + 1, q) => NoneBefore(k, Len(p) + 1, p)
  BY <1>1 DEF NoneBefore
<1> QED BY <1>2, <1>3, <1>4 DEF Awaits

(* The datum that the device owed is the one that was awaited. *)
LEMMA AwaitsDatum ==
    ASSUME NEW p \in Seq(Wire), NEW q \in Seq(Wire), Len(p) < Len(q),
           \A i \in DOMAIN p : q[i] = p[i],
           \A i \in DOMAIN q : i > Len(p) /\ i < Len(q) => ~Datum(q[i]),
           Datum(q[Len(q)]),
           NEW a, NEW k \in Nat, k <= Len(p) + 1, NEW c, NEW n, NEW l, NEW c2, NEW n2, NEW l2,
           DeviceFollows(a, c, n, l) => Follows(a, q[Len(q)].data),
           Awaits(a, k, p, c, n, l)
    PROVE  Awaits(a, k, q, c2, n2, l2)
<1>1. DOMAIN p = 1 .. Len(p) /\ DOMAIN q = 1 .. Len(q) /\ Len(p) \in Nat /\ Len(q) \in Nat
  OBVIOUS
<1>2. \A j \in DOMAIN q : Datum(q[j]) => j \in DOMAIN p \/ j = Len(q)
  BY <1>1
<1>3. \A j \in DOMAIN p : NoneBefore(k, j, q) => NoneBefore(k, j, p)
  BY <1>1 DEF NoneBefore
<1>4. NoneBefore(k, Len(q), q) => NoneBefore(k, Len(p) + 1, p)
  BY <1>1 DEF NoneBefore
<1>5. Len(q) \in DOMAIN q /\ ~NoneBefore(k, Len(q) + 1, q)
  BY <1>1 DEF NoneBefore
<1> QED BY <1>2, <1>3, <1>4, <1>5 DEF Awaits

(* What is received leaves the rest one place earlier. *)
LEMMA AwaitsTail ==
    ASSUME NEW p \in Seq(Wire), p # << >>, NEW a, NEW k \in Nat \ {0}, NEW c, NEW n, NEW l,
           \/ Awaits(a, k + 1, p, c, n, l)
           \/ k = 1 /\ ~Datum(p[1]) /\ Awaits(a, 1, p, c, n, l)
    PROVE  Awaits(a, k, Tail(p), c, n, l)
<1> DEFINE q == Tail(p)
<1>1. /\ DOMAIN p = 1 .. Len(p) /\ DOMAIN q = 1 .. Len(q)
      /\ Len(p) \in Nat \ {0} /\ Len(q) \in Nat /\ Len(p) = Len(q) + 1
      /\ \A i \in DOMAIN q : i \in Nat /\ i + 1 \in DOMAIN p /\ q[i] = p[i + 1]
  BY TailElements
<1> HIDE DEF q
<1>2. \A i \in DOMAIN p : i # 1 => i - 1 \in DOMAIN q /\ p[i] = q[i - 1]
  BY <1>1
<1>3. CASE Awaits(a, k + 1, p, c, n, l)
  <2>1. ASSUME NEW j \in Nat, NoneBefore(k, j, q) PROVE NoneBefore(k + 1, j + 1, p)
    <3>1. ASSUME NEW i \in DOMAIN p, k + 1 <= i, i < j + 1 PROVE ~Datum(p[i])
      <4>1. i \in Nat /\ i # 1 /\ k <= i - 1 /\ i - 1 < j
        BY <1>1, <3>1
      <4> QED BY <1>2, <2>1, <4>1 DEF NoneBefore
    <3> QED BY <3>1 DEF NoneBefore
  <2>2. NoneBefore(k, Len(q) + 1, q) => NoneBefore(k + 1, Len(p) + 1, p)
    BY <1>1, <2>1
  <2> QED BY <1>1, <1>3, <2>1, <2>2 DEF Awaits, q
<1>4. CASE k = 1 /\ ~Datum(p[1]) /\ Awaits(a, 1, p, c, n, l)
  <2>1. \A j \in DOMAIN q : NoneBefore(1, j, q) => NoneBefore(1, j + 1, p)
    BY <1>1, <1>2, <1>4 DEF NoneBefore
  <2>2. NoneBefore(1, Len(q) + 1, q) => NoneBefore(1, Len(p) + 1, p)
    BY <1>1, <1>2, <1>4 DEF NoneBefore
  <2> QED BY <1>1, <1>4, <2>1, <2>2 DEF Awaits, q
<1> QED BY <1>3, <1>4

(* A queue goes on with the datum that follows its last. *)
LEMMA ChainGrows ==
    ASSUME NEW q \in Seq(Data), NEW e \in Data, Chain(q),
           q # << >> => Last(q) # Host!End /\ (e # Host!End => Follows(Last(q), e))
    PROVE  /\ Chain(Append(q, e))
           /\ Append(q, e) \in Seq(Data)
           /\ Append(q, e) # << >>
           /\ Last(Append(q, e)) = e
<1>1. /\ Len(q) \in Nat /\ DOMAIN q = 1 .. Len(q) /\ Len(Append(q, e)) = Len(q) + 1
      /\ Append(q, e) \in Seq(Data) /\ Append(q, e) # << >>
      /\ \A i \in DOMAIN q : Append(q, e)[i] = q[i]
      /\ Append(q, e)[Len(q) + 1] = e
  BY AppendElements
<1>2. ASSUME NEW i \in 2 .. Len(Append(q, e))
      PROVE  /\ Append(q, e)[i - 1] # Host!End
             /\ Append(q, e)[i] # Host!End => Follows(Append(q, e)[i - 1], Append(q, e)[i])
  <2>1. CASE i = Len(q) + 1
    <3>1. q # << >> /\ Last(q) = q[i - 1] /\ i - 1 \in DOMAIN q
      BY <1>1, <1>2, <2>1 DEF Last
    <3> QED BY <1>1, <2>1, <3>1
  <2>2. CASE i # Len(q) + 1
    <3>1. i \in 2 .. Len(q) /\ i \in DOMAIN q /\ i - 1 \in DOMAIN q
      BY <1>1, <1>2, <2>2
    <3> QED BY <1>1, <3>1 DEF Chain
  <2> QED BY <2>1, <2>2
<1> QED BY <1>1, <1>2 DEF Chain, Last

-----------------------------------------------------------------------------
(* A frame has the parts it is made of. *)
LEMMA Framed ==
    \A g \in {"OPEN", "DATA", "CLOSE"}, d \in Data, t \in {"whole", "head", "tail", "stub"} :
        /\ Host!Frame(g, d, t) \in Wire
        /\ Host!Frame(g, d, t).flag = g /\ Host!Frame(g, d, t).data = d /\ Host!Frame(g, d, t).part = t
BY DEF Host!Frame, Wire

(* The mark at the end is a datum. *)
LEMMA EndIsData == Host!End \in Data
BY DEF Host!End, Data

(* A channel that is made is the last one, open and empty. *)
LEMMA MakeMakes ==
    ASSUME objects \in Seq(Object), table \in Made, Host!Make
    PROVE  /\ objects' \in Seq(Object)
           /\ table' = Len(objects) + 1 /\ table' # 0 /\ table' \in Made'
           /\ Len(objects) \in Nat /\ Len(objects') = Len(objects) + 1
           /\ DOMAIN objects = 1 .. Len(objects) /\ DOMAIN objects' = 1 .. Len(objects')
           /\ \A o \in DOMAIN objects : objects'[o] = objects[o]
           /\ objects'[table'].open /\ objects'[table'].queue = << >>
<1> DEFINE e == [open |-> TRUE, queue |-> << >>]
<1>1. e \in Object
  BY DEF Object
<1>2. objects' = Append(objects, e) /\ table' = Len(objects) + 1 /\ e.open /\ e.queue = << >>
  BY DEF Host!Make
<1> HIDE DEF e
<1> QED BY <1>1, <1>2, AppendElements DEF Made

(* A channel keeps its number and its type when its queue or its flag is set. *)
LEMMA ObjectFields ==
    ASSUME NEW e \in Object, NEW q \in Seq(Data)
    PROVE  /\ e.open \in BOOLEAN /\ e.queue \in Seq(Data)
           /\ [e EXCEPT !.open = FALSE, !.queue = q] \in Object
           /\ ~[e EXCEPT !.open = FALSE, !.queue = q].open
           /\ [e EXCEPT !.open = FALSE, !.queue = q].queue = q
           /\ [e EXCEPT !.queue = q] \in Object
           /\ [e EXCEPT !.queue = q].open = e.open
           /\ [e EXCEPT !.queue = q].queue = q
           /\ [e EXCEPT !.open = FALSE] \in Object
           /\ ~[e EXCEPT !.open = FALSE].open
           /\ [e EXCEPT !.open = FALSE].queue = e.queue
BY DEF Object

(* A change of one channel leaves the others. *)
LEMMA SetKeepsObjects ==
    ASSUME objects \in Seq(Object), NEW o \in DOMAIN objects, NEW e \in Object,
           NEW new, new = [objects EXCEPT ![o] = e]
    PROVE  /\ new \in Seq(Object)
           /\ Len(new) = Len(objects) /\ DOMAIN new = DOMAIN objects
           /\ new[o] = e
           /\ \A x \in DOMAIN objects : x # o => new[x] = objects[x]
OBVIOUS

(* A channel has its type. *)
LEMMA ObjectIs == ASSUME objects \in Seq(Object), NEW o \in DOMAIN objects PROVE objects[o] \in Object
OBVIOUS

(* A channel closed with a mark for its reader. *)
LEMMA MarkedObject ==
    ASSUME objects \in Seq(Object), NEW o \in DOMAIN objects
    PROVE  /\ Host!Marked(o) \in Seq(Object)
           /\ Len(Host!Marked(o)) = Len(objects) /\ DOMAIN Host!Marked(o) = DOMAIN objects
           /\ ~Host!Marked(o)[o].open /\ Host!Marked(o)[o].queue = Append(objects[o].queue, Host!End)
           /\ \A x \in DOMAIN objects : x # o => Host!Marked(o)[x] = objects[x]
<1> DEFINE q == Append(objects[o].queue, Host!End)
           e == [objects[o] EXCEPT !.open = FALSE, !.queue = q]
<1>a. objects[o] \in Object /\ << >> \in Seq(Data)
  BY ObjectIs
<1>1. q \in Seq(Data)
  BY <1>a, ObjectFields, EndIsData, AppendElements
<1>3. Host!Marked(o) = [objects EXCEPT ![o] = e]
  BY DEF Host!Marked
<1> HIDE DEF q
<1>2. e \in Object /\ ~e.open /\ e.queue = q
  BY <1>1, <1>a, ObjectFields
<1> USE DEF q
<1> HIDE DEF e
<1> QED BY <1>2, <1>3, SetKeepsObjects

(* The other changes of a channel: its flag alone, its queue alone. *)
Shutting(o) == [objects EXCEPT ![o].open = FALSE]
Giving(o, d) == [objects EXCEPT ![o].queue = Append(@, d)]

(* A channel closed without one. *)
LEMMA ClosedObject ==
    ASSUME objects \in Seq(Object), NEW o \in DOMAIN objects
    PROVE  /\ Shutting(o) \in Seq(Object)
           /\ Len(Shutting(o)) = Len(objects) /\ DOMAIN Shutting(o) = DOMAIN objects
           /\ ~Shutting(o)[o].open /\ Shutting(o)[o].queue = objects[o].queue
           /\ \A x \in DOMAIN objects : x # o => Shutting(o)[x] = objects[x]
<1> DEFINE e == [objects[o] EXCEPT !.open = FALSE]
<1>a. objects[o] \in Object /\ << >> \in Seq(Data)
  BY ObjectIs
<1>1. e \in Object /\ ~e.open /\ e.queue = objects[o].queue
  BY <1>a, ObjectFields
<1>2. Shutting(o) = [objects EXCEPT ![o] = e]
  BY DEF Shutting
<1> HIDE DEF e
<1> QED BY <1>1, <1>2, SetKeepsObjects

(* A channel given a datum. *)
LEMMA GivenObject ==
    ASSUME objects \in Seq(Object), NEW o \in DOMAIN objects, NEW d \in Data
    PROVE  /\ Giving(o, d) \in Seq(Object)
           /\ Len(Giving(o, d)) = Len(objects) /\ DOMAIN Giving(o, d) = DOMAIN objects
           /\ Giving(o, d)[o].open = objects[o].open /\ Giving(o, d)[o].queue = Append(objects[o].queue, d)
           /\ \A x \in DOMAIN objects : x # o => Giving(o, d)[x] = objects[x]
<1> DEFINE q == Append(objects[o].queue, d)
           e == [objects[o] EXCEPT !.queue = q]
<1>a. objects[o] \in Object /\ << >> \in Seq(Data)
  BY ObjectIs
<1>1. q \in Seq(Data)
  BY <1>a, ObjectFields, AppendElements
<1>3. Giving(o, d) = [objects EXCEPT ![o] = e]
  BY DEF Giving
<1> HIDE DEF q
<1>2. e \in Object /\ e.open = objects[o].open /\ e.queue = q
  BY <1>1, <1>a, ObjectFields
<1> USE DEF q
<1> HIDE DEF e
<1> QED BY <1>2, <1>3, SetKeepsObjects

-----------------------------------------------------------------------------
(* Types *)

(* The device keeps the types. *)
LEMMA DeviceTypes ==
    ASSUME HostTypes, NEW end \in {"whole", "tail", "stub"},
           Host!DeviceOpens \/ Host!DeviceCloses \/ Host!DeviceHears \/ Host!DeviceSends(end)
    PROVE  HostTypes'
<1> USE DEF HostTypes, Made, Host!tableVars, Host!toolVars, Host!rxVars
<1>1. CASE Host!DeviceOpens
  <2>1. Host!Frame("OPEN", Host!End, "whole") \in Wire
    BY Framed, EndIsData
  <2>2. toHost' \in Seq(Wire)
    BY <1>1, <2>1, AppendElements DEF Host!DeviceOpens
  <2> QED BY <1>1, <2>2 DEF Host!DeviceOpens
<1>2. CASE Host!DeviceCloses
  <2>1. Host!Frame("CLOSE", Host!End, "whole") \in Wire
    BY Framed, EndIsData
  <2>2. toHost' \in Seq(Wire)
    BY <1>2, <2>1, AppendElements DEF Host!DeviceCloses
  <2> QED BY <1>2, <2>2 DEF Host!DeviceCloses
<1>3. CASE Host!DeviceHears
  BY <1>3 DEF Host!DeviceHears
<1>4. CASE Host!DeviceSends(end)
  <2> DEFINE data == <<conn, number + 1>>
  <2>1. data \in Data
    BY DEF Data
  <2> HIDE DEF data
  <2>2. /\ Host!Frame("DATA", data, "whole") \in Wire
        /\ Host!Frame("DATA", data, "head") \in Wire
        /\ Host!Frame("DATA", data, end) \in Wire
    BY <2>1, Framed
  <2>3. \/ toHost' = Append(toHost, Host!Frame("DATA", data, "whole"))
        \/ toHost' = toHost \o <<Host!Frame("DATA", data, "head"), Host!Frame("DATA", data, end)>>
    BY <1>4 DEF Host!DeviceSends, data
  <2>4. Append(toHost, Host!Frame("DATA", data, "whole")) \in Seq(Wire)
    BY <2>2, AppendElements
  <2>5. toHost \o <<Host!Frame("DATA", data, "head"), Host!Frame("DATA", data, end)>> \in Seq(Wire)
    BY <2>2, PairElements
  <2>6. toHost' \in Seq(Wire)
    BY <2>3, <2>4, <2>5
  <2> QED BY <1>4, <2>6 DEF Host!DeviceSends
<1> QED BY <1>1, <1>2, <1>3, <1>4

(* The tool keeps the types. *)
LEMMA ToolTypes ==
    ASSUME HostTypes, Host!OpenChannel \/ Host!Announce \/ Host!CloseChannel \/ Host!SayClose \/ Host!RemoveChannel \/ Host!Shut
    PROVE  HostTypes'
<1> USE DEF HostTypes, Host!deviceVars, Host!toolVars, Host!rxVars, Host!tableVars
<1>1. CASE Host!OpenChannel
  <2>1. CASE table # 0
    BY <1>1, <2>1 DEF Host!OpenChannel, Made
  <2>2. CASE Host!Make
    BY <1>1, <2>2, MakeMakes DEF Host!OpenChannel, Made
  <2> QED BY <1>1, <2>1, <2>2 DEF Host!OpenChannel
<1>2. CASE Host!Announce \/ Host!SayClose
  BY <1>2 DEF Host!Announce, Host!SayClose, Made
<1>3. CASE Host!CloseChannel
  <2>1. held \in DOMAIN objects /\ objects' = Shutting(held)
    BY <1>3 DEF Host!CloseChannel, Shutting, Made
  <2>2. objects' \in Seq(Object) /\ Len(objects') = Len(objects)
    BY <2>1, ClosedObject
  <2> QED BY <1>3, <2>2 DEF Host!CloseChannel, Made
<1>4. CASE Host!RemoveChannel
  BY <1>4 DEF Host!RemoveChannel, Made
<1>5. CASE Host!Shut
  <2>1. objects' \in Seq(Object) /\ Len(objects') = Len(objects)
    <3>1. CASE table # 0
      <4>1. table \in DOMAIN objects /\ objects' = Host!Marked(table)
        BY <1>5, <3>1 DEF Host!Shut, Made
      <4> QED BY <4>1, MarkedObject
    <3>2. CASE table = 0
      BY <1>5, <3>2 DEF Host!Shut
    <3> QED BY <3>1, <3>2
  <2>2. /\ tool' = "ended" /\ managed' = FALSE /\ table' = 0
        /\ UNCHANGED <<conn, number, linked, toHost, held, rx, frame, found, crossed, cut>>
    BY <1>5 DEF Host!Shut
  <2>3. table' \in Made' /\ held' \in Made' /\ found' \in Made'
    BY <2>1, <2>2 DEF Made
  <2> QED BY <2>1, <2>2, <2>3
<1> QED BY <1>1, <1>2, <1>3, <1>4, <1>5

(* The receiving thread keeps the types. *)
LEMMA ReceiverTypes ==
    ASSUME HostTypes, Host!Receive \/ Host!Opened \/ Host!Dispatched \/ Host!MarkClosed \/ Host!Pop
    PROVE  HostTypes'
<1> USE DEF HostTypes, Host!deviceVars, Host!toolVars, Host!tableVars
<1>1. CASE Host!Receive
  <2>1. Head(toHost) \in Wire /\ toHost' = Tail(toHost) /\ toHost' \in Seq(Wire)
    BY <1>1, TailElements DEF Host!Receive
  <2>2. Head(toHost).flag \in {"OPEN", "DATA", "CLOSE"} /\ Head(toHost).part \in {"whole", "head", "tail", "stub"}
    BY <2>1 DEF Wire
  <2>3. rx' \in {"idle", "OPEN", "DATA", "CLOSE"} /\ (rx' # "idle" => frame' = Head(toHost)) /\ found' \in {0, table}
    BY <1>1, <2>2 DEF Host!Receive
  <2> QED BY <1>1, <2>1, <2>3 DEF Host!Receive, Made
<1>2. CASE Host!Opened
  <2>1. CASE Host!Make
    <3>1. crossed' \in BOOLEAN
      BY <1>2 DEF Host!Opened
    <3> QED BY <1>2, <2>1, <3>1, MakeMakes DEF Host!Opened, Host!Done, Made
  <2>2. CASE found # 0
    BY <1>2, <2>2 DEF Host!Opened, Host!Done, Made
  <2> QED BY <1>2, <2>1, <2>2 DEF Host!Opened
<1>3. CASE Host!Dispatched
  <2>1. objects' \in Seq(Object) /\ Len(objects') = Len(objects)
    <3>1. CASE found # 0
      <4>1. found \in DOMAIN objects /\ objects' = Giving(found, frame.data) /\ frame.data \in Data
        BY <1>3, <3>1 DEF Host!Dispatched, Giving, Made, Wire
      <4> QED BY <4>1, GivenObject
    <3>2. CASE found = 0
      BY <1>3, <3>2 DEF Host!Dispatched
    <3> QED BY <3>1, <3>2
  <2> QED BY <1>3, <2>1 DEF Host!Dispatched, Host!Done, Made
<1>4. CASE Host!MarkClosed
  <2>1. CASE found # 0
    <3>1. found \in DOMAIN objects /\ objects' = Host!Marked(found)
      BY <1>4, <2>1 DEF Host!MarkClosed, Made
    <3>2. objects' \in Seq(Object) /\ Len(objects') = Len(objects)
      BY <3>1, MarkedObject
    <3> QED BY <1>4, <2>1, <3>2 DEF Host!MarkClosed, Made
  <2>2. CASE found = 0
    BY <1>4, <2>2 DEF Host!MarkClosed, Host!Done, Made
  <2> QED BY <2>1, <2>2
<1>5. CASE Host!Pop
  BY <1>5 DEF Host!Pop, Host!Done, Made
<1> QED BY <1>1, <1>2, <1>3, <1>4, <1>5

(* Every step keeps the types. *)
LEMMA HostTypesKept == HostTypes /\ [Host!Next]_Host!hostVars => HostTypes'
<1> SUFFICES ASSUME HostTypes, [Host!Next]_Host!hostVars PROVE HostTypes'
  OBVIOUS
<1>1. CASE Host!Next
  BY <1>1, DeviceTypes, ToolTypes, ReceiverTypes DEF Host!Next
<1>2. CASE UNCHANGED Host!hostVars
  BY <1>2 DEF Host!hostVars, Host!deviceVars, Host!tableVars, Host!toolVars, Host!rxVars, HostTypes, Made
<1> QED BY <1>1, <1>2

-----------------------------------------------------------------------------
(* The table: what the tool's thread does ... *)
LEMMA ToolKeepsTable ==
    ASSUME HostTypes, TableInv, Host!OpenChannel \/ Host!Announce \/ Host!CloseChannel \/ Host!SayClose \/ Host!RemoveChannel \/ Host!Shut
    PROVE  TableInv'
<1> USE DEF HostTypes, TableInv, Made, Host!deviceVars, Host!toolVars, Host!rxVars, Host!tableVars
<1>1. CASE Host!OpenChannel
  <2>1. CASE table # 0
    BY <1>1, <2>1 DEF Host!OpenChannel
  <2>2. CASE Host!Make
    BY <1>1, <2>2, MakeMakes DEF Host!OpenChannel
  <2> QED BY <1>1, <2>1, <2>2 DEF Host!OpenChannel
<1>2. CASE Host!Announce \/ Host!SayClose
  BY <1>2 DEF Host!Announce, Host!SayClose
<1>3. CASE Host!CloseChannel
  <2>1. held \in DOMAIN objects /\ objects' = Shutting(held)
    BY <1>3 DEF Host!CloseChannel, Shutting
  <2>2. ~objects'[held].open /\ \A x \in DOMAIN objects : x # held => objects'[x] = objects[x]
    BY <2>1, ClosedObject
  <2> QED BY <1>3, <2>2 DEF Host!CloseChannel
<1>4. CASE Host!RemoveChannel
  BY <1>4 DEF Host!RemoveChannel
<1>5. CASE Host!Shut
  <2>1. CASE table # 0
    <3>1. table \in DOMAIN objects /\ objects' = Host!Marked(table)
      BY <1>5, <2>1 DEF Host!Shut
    <3>2. ~objects'[table].open /\ \A x \in DOMAIN objects : x # table => objects'[x] = objects[x]
      BY <3>1, MarkedObject
    <3> QED BY <1>5, <3>2 DEF Host!Shut
  <2>2. CASE table = 0
    BY <1>5, <2>2 DEF Host!Shut
  <2> QED BY <2>1, <2>2
<1> QED BY <1>1, <1>2, <1>3, <1>4, <1>5

(* ... and the receive thread. *)
LEMMA ReceiverKeepsTable ==
    ASSUME HostTypes, TableInv, Host!Receive \/ Host!Opened \/ Host!Dispatched \/ Host!MarkClosed \/ Host!Pop
    PROVE  TableInv'
<1> USE DEF HostTypes, TableInv, Made, Host!deviceVars, Host!toolVars, Host!tableVars
<1>1. CASE Host!Receive
  <2>1. rx' # "pop"
    <3>1. Head(toHost) \in Wire
      BY <1>1, TailElements DEF Host!Receive
    <3> QED BY <1>1, <3>1 DEF Host!Receive, Wire
  <2> QED BY <1>1, <2>1 DEF Host!Receive
<1>2. CASE Host!Opened
  <2>1. CASE Host!Make
    <3>1. ~crossed' => ~crossed
      BY <1>2 DEF Host!Opened
    <3>2. rx' = "idle" /\ UNCHANGED <<tool, held>>
      BY <1>2 DEF Host!Opened, Host!Done
    <3>3. CASE found = 0
      <4>1. ~crossed' => table = 0
        BY <1>2, <3>3 DEF Host!Opened
      <4> QED BY <2>1, <3>1, <3>2, <4>1, MakeMakes
    <3>4. CASE found # 0
      BY <1>2, <3>4 DEF Host!Opened, Host!Done
    <3> QED BY <3>3, <3>4
  <2>2. CASE found # 0
    BY <1>2, <2>2 DEF Host!Opened, Host!Done
  <2> QED BY <1>2, <2>1, <2>2 DEF Host!Opened
<1>3. CASE Host!Dispatched
  <2>1. \A x \in DOMAIN objects : objects'[x].open = objects[x].open
    <3>1. CASE found # 0
      <4>1. found \in DOMAIN objects /\ objects' = Giving(found, frame.data) /\ frame.data \in Data
        BY <1>3, <3>1 DEF Host!Dispatched, Giving, Wire
      <4> QED BY <4>1, GivenObject
    <3>2. CASE found = 0
      BY <1>3, <3>2 DEF Host!Dispatched
    <3> QED BY <3>1, <3>2
  <2> QED BY <1>3, <2>1 DEF Host!Dispatched, Host!Done
<1>4. CASE Host!MarkClosed
  <2>1. CASE found # 0
    <3>1. found \in DOMAIN objects /\ objects' = Host!Marked(found)
      BY <1>4, <2>1 DEF Host!MarkClosed
    <3>2. ~objects'[found].open /\ \A x \in DOMAIN objects : x # found => objects'[x] = objects[x]
      BY <3>1, MarkedObject
    <3> QED BY <1>4, <2>1, <3>2 DEF Host!MarkClosed
  <2>2. CASE found = 0
    BY <1>4, <2>2 DEF Host!MarkClosed, Host!Done
  <2> QED BY <2>1, <2>2
<1>5. CASE Host!Pop
  <2>1. ~crossed' => ~crossed /\ table \in {0, found}
    BY <1>5 DEF Host!Pop
  <2> QED BY <1>5, <2>1 DEF Host!Pop, Host!Done
<1> QED BY <1>1, <1>2, <1>3, <1>4, <1>5

(* Every step keeps who may have a closed channel. *)
LEMMA TableKept == HostTypes /\ TableInv /\ [Host!Next]_Host!hostVars => TableInv'
<1> SUFFICES ASSUME HostTypes, TableInv, [Host!Next]_Host!hostVars PROVE TableInv'
  OBVIOUS
<1>1. ASSUME NEW end \in {"whole", "tail", "stub"}, Host!DeviceOpens \/ Host!DeviceCloses \/ Host!DeviceHears \/ Host!DeviceSends(end)
      PROVE  TableInv'
  BY <1>1 DEF Host!DeviceOpens, Host!DeviceCloses, Host!DeviceHears, Host!DeviceSends, TableInv, Host!tableVars, Host!toolVars, Host!rxVars
<1>2. CASE UNCHANGED Host!hostVars
  BY <1>2 DEF Host!hostVars, TableInv, Host!tableVars, Host!toolVars, Host!rxVars
<1> QED BY <1>1, <1>2, ToolKeepsTable, ReceiverKeepsTable DEF Host!Next

-----------------------------------------------------------------------------
(* The stream: what the device does ... *)

(* What was last put into a queue is a datum. *)
LEMMA LastIsData ==
    ASSUME HostTypes, NEW o \in DOMAIN objects, Goes(o)
    PROVE  objects[o].queue \in Seq(Data) /\ Last(objects[o].queue) \in Data
<1>1. objects[o] \in Object
  BY DEF HostTypes
<1>2. objects[o].queue \in Seq(Data) /\ objects[o].queue # << >>
  BY <1>1, ObjectFields DEF Goes, Object
<1> QED BY <1>2 DEF Last

(* The stream stays in order when only its far end moves. *)
LEMMA StreamGoesOn ==
    ASSUME HostTypes, HostPipeInv, managed => Chains /\ HostQueueInv,
           UNCHANGED <<objects, table, found, rx, frame, managed, cut>>,
           \A a \in Data, k \in Nat :
               k <= Len(toHost) + 1 /\ OnFrom(a, k) => Awaits(a, k, toHost', conn', number', linked'),
           \A k \in DOMAIN toHost' :
               Datum(toHost'[k]) =>
                   toHost'[k].data # Host!End /\ Awaits(toHost'[k].data, k + 1, toHost', conn', number', linked')
    PROVE  HostPipeInv' /\ (managed => Chains /\ HostQueueInv)'
<1>1. Len(toHost) \in Nat /\ 1 \in Nat /\ 1 <= Len(toHost) + 1
  BY DEF HostTypes
<1>2. HostPipeInv'
  <2>1. rx = "DATA" => frame.data \in Data
    BY DEF HostTypes, Wire
  <2> QED BY <1>1, <2>1 DEF HostPipeInv, OnFrom
<1>3. ASSUME NEW o \in DOMAIN objects, Goes(o), OnFrom(Last(objects[o].queue), 1)
      PROVE  Awaits(Last(objects[o].queue), 1, toHost', conn', number', linked')
  BY <1>1, <1>3, LastIsData
<1>4. managed => Chains'
  BY DEF Chains
<1>5. managed => HostQueueInv'
  <2>1. \A o \in Made : o # 0 => o \in DOMAIN objects
    BY DEF HostTypes, Made
  <2>2. \A o \in DOMAIN objects : Goes(o)' <=> Goes(o)
    BY DEF Goes
  <2> QED BY <1>3, <2>1, <2>2 DEF HostQueueInv, OnFrom, HostTypes, Goes
<1> QED BY <1>2, <1>4, <1>5

(* Steps of the device keep the stream in order. *)
LEMMA DeviceKeepsStream ==
    ASSUME HostTypes, HostTypes', HostPipeInv, managed => Chains /\ HostQueueInv, NEW end \in {"whole", "tail", "stub"},
           Host!DeviceOpens \/ Host!DeviceCloses \/ Host!DeviceHears \/ Host!DeviceSends(end)
    PROVE  HostPipeInv' /\ (managed => Chains /\ HostQueueInv)'
<1>a. UNCHANGED <<objects, table, found, rx, frame, managed, cut>>
  BY DEF Host!DeviceOpens, Host!DeviceCloses, Host!DeviceHears, Host!DeviceSends, Host!tableVars, Host!rxVars
<1>b. /\ toHost \in Seq(Wire) /\ toHost' \in Seq(Wire) /\ Len(toHost) \in Nat
      /\ DOMAIN toHost = 1 .. Len(toHost) /\ DOMAIN toHost' = 1 .. Len(toHost')
      /\ \A k \in DOMAIN toHost : toHost[k] \in Wire /\ toHost[k].data \in Data
  <2>1. \A f \in Wire : f.data \in Data
    BY DEF Wire
  <2> QED BY <2>1 DEF HostTypes
(* Nothing that ends a datum is sent. *)
<1>1. ASSUME Len(toHost) <= Len(toHost'), \A i \in DOMAIN toHost : toHost'[i] = toHost[i],
             \A i \in DOMAIN toHost' : i > Len(toHost) => ~Datum(toHost'[i]),
             \A a \in Data : DeviceFollows(a, conn, number, linked) => DeviceFollows(a, conn', number', linked')
      PROVE  HostPipeInv' /\ (managed => Chains /\ HostQueueInv)'
  <2>1. \A a \in Data, k \in Nat : OnFrom(a, k) => Awaits(a, k, toHost', conn', number', linked')
    BY <1>b, <1>1, AwaitsQuietly DEF OnFrom
  <2>2. ASSUME NEW k \in DOMAIN toHost', Datum(toHost'[k])
        PROVE  toHost'[k].data # Host!End /\ Awaits(toHost'[k].data, k + 1, toHost', conn', number', linked')
    <3>1. k \in DOMAIN toHost /\ k + 1 \in Nat /\ toHost'[k] = toHost[k]
      BY <1>b, <1>1, <2>2
    <3>2. toHost[k].data # Host!End /\ OnFrom(toHost[k].data, k + 1)
      BY <2>2, <3>1 DEF HostPipeInv
    <3> QED BY <1>b, <2>1, <3>1, <3>2
  <2> QED BY <1>a, <2>1, <2>2, StreamGoesOn
(* The next datum is sent. *)
<1>2. ASSUME NEW n \in Nat, n = Len(toHost'), Len(toHost) < n, \A i \in DOMAIN toHost : toHost'[i] = toHost[i],
             \A i \in DOMAIN toHost' : i > Len(toHost) /\ i < n => ~Datum(toHost'[i]),
             Datum(toHost'[n]), toHost'[n].data # Host!End,
             \A a \in Data : DeviceFollows(a, conn, number, linked) => Follows(a, toHost'[n].data),
             DeviceFollows(toHost'[n].data, conn', number', linked')
      PROVE  HostPipeInv' /\ (managed => Chains /\ HostQueueInv)'
  <2>1. \A a \in Data, k \in Nat :
            k <= Len(toHost) + 1 /\ OnFrom(a, k) => Awaits(a, k, toHost', conn', number', linked')
    BY <1>b, <1>2, AwaitsDatum DEF OnFrom
  <2>2. ASSUME NEW k \in DOMAIN toHost', Datum(toHost'[k])
        PROVE  toHost'[k].data # Host!End /\ Awaits(toHost'[k].data, k + 1, toHost', conn', number', linked')
    <3>1. CASE k = n
      BY <1>b, <1>2, <3>1 DEF Awaits
    <3>2. CASE k # n
      <4>1. k \in DOMAIN toHost /\ k + 1 \in Nat /\ k + 1 <= Len(toHost) + 1 /\ toHost'[k] = toHost[k]
        BY <1>b, <1>2, <2>2, <3>2
      <4>2. toHost[k].data # Host!End /\ OnFrom(toHost[k].data, k + 1)
        BY <2>2, <4>1 DEF HostPipeInv
      <4> QED BY <1>b, <2>1, <4>1, <4>2
    <3> QED BY <3>1, <3>2
  <2> QED BY <1>a, <2>1, <2>2, StreamGoesOn
<1>3. CASE Host!DeviceOpens \/ Host!DeviceCloses
  <2> DEFINE g == IF Host!DeviceOpens THEN "OPEN" ELSE "CLOSE"
             f == Host!Frame(g, Host!End, "whole")
  <2>1. f \in Wire /\ ~Datum(f)
    BY Framed, EndIsData DEF Datum
  <2>2. toHost' = Append(toHost, f)
    BY <1>3 DEF Host!DeviceOpens, Host!DeviceCloses
  <2> HIDE DEF f
  <2>3. /\ DOMAIN toHost' = 1 .. (Len(toHost) + 1) /\ Len(toHost') = Len(toHost) + 1
        /\ \A i \in DOMAIN toHost : toHost'[i] = toHost[i]
        /\ toHost'[Len(toHost) + 1] = f
    BY <1>b, <2>1, <2>2, AppendElements
  <2>4. \A a \in Data : DeviceFollows(a, conn, number, linked) => DeviceFollows(a, conn', number', linked')
    BY <1>3 DEF Host!DeviceOpens, Host!DeviceCloses, DeviceFollows, HostTypes, Data
  <2>5. \A i \in DOMAIN toHost' : i > Len(toHost) => ~Datum(toHost'[i])
    BY <1>b, <2>1, <2>3
  <2> QED BY <1>1, <1>b, <2>3, <2>4, <2>5
<1>4. CASE Host!DeviceHears
  <2>1. UNCHANGED <<conn, number, toHost>> /\ (linked' => linked)
    BY <1>4 DEF Host!DeviceHears
  <2> QED BY <1>b, <1>1, <2>1 DEF DeviceFollows
<1>5. CASE Host!DeviceSends(end)
  <2> DEFINE data == <<conn, number + 1>>
  <2>1. data \in Data /\ data # Host!End /\ data[1] = conn /\ data[2] = number + 1
    BY DEF Data, HostTypes, Host!End
  <2>2. \A a \in Data : DeviceFollows(a, conn, number, linked) => Follows(a, data)
    <3>1. linked
      BY <1>5 DEF Host!DeviceSends
    <3> SUFFICES ASSUME NEW a \in Data, DeviceFollows(a, conn, number, linked) PROVE Follows(a, data)
      OBVIOUS
    <3>2. CASE a[1] = conn
      BY <3>1, <3>2 DEF DeviceFollows, Follows
    <3>3. CASE a[1] # conn
      BY <3>1, <3>3 DEF DeviceFollows, Follows, Data, HostTypes
    <3> QED BY <3>2, <3>3
  <2>3. DeviceFollows(data, conn', number', linked')
    <3>1. conn' = conn /\ number' = number + 1
      BY <1>5 DEF Host!DeviceSends
    <3> QED BY <3>1 DEF DeviceFollows, HostTypes
  <2>4. \/ toHost' = Append(toHost, Host!Frame("DATA", data, "whole"))
        \/ toHost' = toHost \o <<Host!Frame("DATA", data, "head"), Host!Frame("DATA", data, end)>>
    BY <1>5 DEF Host!DeviceSends
  <2> HIDE DEF data
  <2>5. /\ Host!Frame("DATA", data, "whole") \in Wire /\ Datum(Host!Frame("DATA", data, "whole"))
        /\ Host!Frame("DATA", data, "whole").data = data
        /\ Host!Frame("DATA", data, "head") \in Wire /\ ~Datum(Host!Frame("DATA", data, "head"))
        /\ Host!Frame("DATA", data, end) \in Wire /\ Datum(Host!Frame("DATA", data, end))
        /\ Host!Frame("DATA", data, end).data = data
    BY <2>1, Framed DEF Datum
  <2>6. CASE toHost' = Append(toHost, Host!Frame("DATA", data, "whole"))
    <3>1. /\ DOMAIN toHost' = 1 .. (Len(toHost) + 1) /\ Len(toHost') = Len(toHost) + 1
          /\ \A i \in DOMAIN toHost : toHost'[i] = toHost[i]
          /\ toHost'[Len(toHost) + 1] = Host!Frame("DATA", data, "whole")
      BY <1>b, <2>5, <2>6, AppendElements
    <3> QED BY <1>2, <1>b, <2>1, <2>2, <2>3, <2>5, <3>1
  <2>7. CASE toHost' = toHost \o <<Host!Frame("DATA", data, "head"), Host!Frame("DATA", data, end)>>
    <3>1. /\ DOMAIN toHost' = 1 .. (Len(toHost) + 2) /\ Len(toHost') = Len(toHost) + 2
          /\ \A i \in DOMAIN toHost : toHost'[i] = toHost[i]
          /\ toHost'[Len(toHost) + 1] = Host!Frame("DATA", data, "head")
          /\ toHost'[Len(toHost) + 2] = Host!Frame("DATA", data, end)
      BY <1>b, <2>5, <2>7, PairElements
    <3>2. \A i \in DOMAIN toHost' : i > Len(toHost) /\ i < Len(toHost) + 2 => ~Datum(toHost'[i])
      BY <1>b, <2>5, <3>1
    <3> QED BY <1>2, <1>b, <2>1, <2>2, <2>3, <2>5, <3>1, <3>2
  <2> QED BY <2>4, <2>6, <2>7
<1> QED BY <1>3, <1>4, <1>5

(* ... the tool, which has no part in it but for the table ... *)
LEMMA StreamUntouched ==
    ASSUME HostTypes, HostPipeInv, UNCHANGED <<toHost, conn, number, linked, rx, frame, cut>>
    PROVE  HostPipeInv' /\ \A a \in Data, k \in Nat : OnFrom(a, k) => Awaits(a, k, toHost', conn', number', linked')
BY DEF HostPipeInv, OnFrom

(* Steps of the tool keep it too. *)
LEMMA ToolKeepsStream ==
    ASSUME HostTypes, HostPipeInv, managed => Chains /\ HostQueueInv,
           Host!OpenChannel \/ Host!Announce \/ Host!CloseChannel \/ Host!SayClose \/ Host!RemoveChannel \/ Host!Shut
    PROVE  HostPipeInv' /\ (managed => Chains /\ HostQueueInv)'
<1>a. UNCHANGED <<toHost, conn, number, linked, rx, frame, found, cut>>
  BY DEF Host!OpenChannel, Host!Announce, Host!CloseChannel, Host!SayClose, Host!RemoveChannel, Host!Shut, Host!deviceVars, Host!rxVars
<1>b. HostPipeInv' /\ \A a, k : OnFrom(a, k) => Awaits(a, k, toHost', conn', number', linked')
  BY <1>a, StreamUntouched DEF OnFrom
<1>c. \A o \in Made : o # 0 => o \in DOMAIN objects
  BY DEF HostTypes, Made
<1>d. table \in Made /\ found \in Made /\ held \in Made
  BY DEF HostTypes
(* Queues and a table that is as it was or empty. *)
<1>1. ASSUME managed' => managed, table' \in {table, 0}, DOMAIN objects' = DOMAIN objects,
             managed' => \A o \in DOMAIN objects : objects'[o].queue = objects[o].queue
      PROVE  (managed => Chains /\ HostQueueInv)'
  <2> SUFFICES ASSUME managed' PROVE Chains' /\ HostQueueInv'
    OBVIOUS
  <2>1. Chains'
    BY <1>1 DEF Chains
  <2>2. HostQueueInv'
    BY <1>1, <1>a, <1>b, <1>c, <1>d DEF HostQueueInv, Goes, OnFrom
  <2> QED BY <2>1, <2>2
<1>2. CASE Host!OpenChannel
  <2>1. CASE table # 0
    BY <1>1, <1>2, <1>b, <2>1 DEF Host!OpenChannel, Host!tableVars
  <2>2. CASE table = 0
    <3>1. Host!Make /\ managed' = managed
      BY <1>2, <2>2 DEF Host!OpenChannel
    <3>2. /\ DOMAIN objects' = DOMAIN objects \cup {table'}
          /\ \A o \in DOMAIN objects : objects'[o] = objects[o]
          /\ objects'[table'].queue = << >>
          /\ table' \notin DOMAIN objects
      BY <3>1, MakeMakes DEF HostTypes
    <3>3. managed => Chains'
      <4>1. Chain(<< >>)
        BY DEF Chain
      <4> QED BY <3>2, <4>1 DEF Chains
    <3>4. managed => HostQueueInv'
      BY <3>2, <1>a, <1>b, <1>c, <1>d DEF HostQueueInv, Goes, OnFrom
    <3> QED BY <1>b, <3>1, <3>3, <3>4
  <2> QED BY <1>b, <2>1, <2>2
<1>3. CASE Host!Announce \/ Host!SayClose \/ Host!RemoveChannel
  BY <1>1, <1>b, <1>3 DEF Host!Announce, Host!SayClose, Host!RemoveChannel, Host!tableVars
<1>4. CASE Host!CloseChannel
  <2>1. held \in DOMAIN objects /\ objects' = Shutting(held)
    BY <1>4, <1>c, <1>d DEF Host!CloseChannel, Shutting
  <2>2. DOMAIN objects' = DOMAIN objects /\ \A o \in DOMAIN objects : objects'[o].queue = objects[o].queue
    BY <2>1, ClosedObject DEF HostTypes
  <2> QED BY <1>1, <1>4, <1>b, <2>2 DEF Host!CloseChannel
<1>5. CASE Host!Shut
  BY <1>b, <1>5 DEF Host!Shut
<1> QED BY <1>2, <1>3, <1>4, <1>5

(* ... and the receive thread, which takes a datum out of the pipe ... *)
LEMMA ReceiveKeepsStream ==
    ASSUME HostTypes, HostPipeInv, managed => Chains /\ HostQueueInv, ~cut, Host!Receive
    PROVE  HostPipeInv' /\ (managed => Chains /\ HostQueueInv)'
<1> DEFINE t == Head(toHost)
<1>a. /\ toHost # << >> /\ rx = "idle" /\ managed
      /\ rx' = IF t.part \in {"whole", "tail"} THEN t.flag ELSE "idle"
      /\ frame' = IF rx' = "idle" THEN Host!NoFrame ELSE t
      /\ found' = IF rx' = "idle" THEN 0 ELSE table
      /\ cut' = (t.part = "stub")
      /\ toHost' = Tail(toHost)
      /\ UNCHANGED <<conn, number, linked, objects, table, managed>>
  BY DEF Host!Receive, Host!deviceVars, Host!tableVars
<1>b. /\ toHost \in Seq(Wire) /\ t \in Wire /\ t = toHost[1] /\ 1 \in DOMAIN toHost
      /\ \A k \in DOMAIN Tail(toHost) : k \in Nat \ {0} /\ k + 1 \in DOMAIN toHost /\ Tail(toHost)[k] = toHost[k + 1]
  BY <1>a, TailElements DEF HostTypes
<1>c. t.flag \in {"OPEN", "DATA", "CLOSE"} /\ t.part \in {"whole", "head", "tail", "stub"} /\ t.data \in Data
  BY <1>b DEF Wire
<1> HIDE DEF t
<1>d. \A a : \A k \in Nat \ {0} : OnFrom(a, k + 1) => Awaits(a, k, toHost', conn', number', linked')
  BY <1>a, <1>b, AwaitsTail DEF OnFrom
<1>e. \A a : ~Datum(t) /\ OnFrom(a, 1) => Awaits(a, 1, toHost', conn', number', linked')
  BY <1>a, <1>b, AwaitsTail DEF OnFrom
<1>f. \A a : Datum(t) /\ OnFrom(a, 1) => Follows(a, t.data)
  <2>1. NoneBefore(1, 1, toHost)
    BY <1>b DEF NoneBefore
  <2> QED BY <1>b, <2>1 DEF OnFrom, Awaits
<1>g. Datum(t) => t.data # Host!End /\ Awaits(t.data, 1, toHost', conn', number', linked')
  <2>1. Datum(t) => t.data # Host!End /\ OnFrom(t.data, 1 + 1)
    BY <1>b DEF HostPipeInv
  <2>2. 1 \in Nat \ {0}
    OBVIOUS
  <2> QED BY <1>d, <2>1, <2>2
<1>1. HostPipeInv'
  <2>1. ASSUME NEW k \in DOMAIN toHost', Datum(toHost'[k])
        PROVE  toHost'[k].data # Host!End /\ Awaits(toHost'[k].data, k + 1, toHost', conn', number', linked')
    <3>1. k \in Nat \ {0} /\ k + 1 \in DOMAIN toHost /\ toHost'[k] = toHost[k + 1] /\ k + 1 \in Nat \ {0}
      BY <1>a, <1>b, <2>1
    <3>2. toHost[k + 1].data # Host!End /\ OnFrom(toHost[k + 1].data, (k + 1) + 1)
      BY <2>1, <3>1 DEF HostPipeInv
    <3> QED BY <1>d, <3>1, <3>2
  <2>2. rx' = "DATA" => Datum(t) /\ frame' = t
    BY <1>a, <1>c DEF Datum
  <2> QED BY <1>g, <2>1, <2>2 DEF HostPipeInv, OnFrom
<1>2. Chains'
  BY <1>a DEF Chains
<1>3. HostQueueInv'
  <2>1. CASE rx' = "idle"
    <3>1. ~cut' => ~Datum(t)
      BY <1>a, <1>c, <2>1 DEF Datum
    <3> QED BY <1>a, <1>e, <2>1, <3>1 DEF HostQueueInv, Goes, OnFrom
  <2>2. CASE rx' # "idle"
    <3>1. ~cut' /\ found' = table /\ frame' = t /\ rx' = t.flag /\ (rx' = "DATA" <=> Datum(t))
      BY <1>a, <1>c, <2>2 DEF Datum
    <3> QED BY <1>a, <1>e, <1>f, <2>2, <3>1 DEF HostQueueInv, Goes, OnFrom
  <2> QED BY <2>1, <2>2
<1> QED BY <1>1, <1>2, <1>3

(* ... and hands it to the channel it looked up, or ends that. *)
LEMMA DispatchKeepsStream ==
    ASSUME HostTypes, HostPipeInv, managed => Chains /\ HostQueueInv, ~cut,
           Host!Opened \/ Host!Dispatched \/ Host!MarkClosed \/ Host!Pop
    PROVE  HostPipeInv' /\ (managed => Chains /\ HostQueueInv)'
<1>a. UNCHANGED <<toHost, conn, number, linked, managed, cut>>
  BY DEF Host!Opened, Host!Dispatched, Host!MarkClosed, Host!Pop, Host!deviceVars
<1>b. rx' \in {"idle", "pop"}
  BY DEF Host!Opened, Host!Dispatched, Host!MarkClosed, Host!Pop, Host!Done
<1>c. HostPipeInv' /\ \A a, k : OnFrom(a, k) => Awaits(a, k, toHost', conn', number', linked')
  BY <1>a, <1>b DEF HostPipeInv, OnFrom
<1>d. table \in Made /\ found \in Made /\ \A o \in Made : o # 0 => o \in DOMAIN objects
  BY DEF HostTypes, Made
<1> SUFFICES ASSUME managed, managed' PROVE Chains' /\ HostQueueInv'
  BY <1>a, <1>c
<1>1. CASE Host!Opened
  <2>1. CASE found = 0
    <3>1. Host!Make
      BY <1>1, <2>1 DEF Host!Opened
    <3>2. /\ DOMAIN objects' = DOMAIN objects \cup {table'}
          /\ \A o \in DOMAIN objects : objects'[o] = objects[o]
          /\ objects'[table'].queue = << >>
      BY <3>1, MakeMakes DEF HostTypes
    <3>3. Chains'
      <4>1. Chain(<< >>)
        BY DEF Chain
      <4> QED BY <3>2, <4>1 DEF Chains
    <3>4. HostQueueInv'
      BY <1>1, <3>2 DEF HostQueueInv, Goes, Host!Opened, Host!Done
    <3> QED BY <3>3, <3>4
  <2>2. CASE found # 0
    <3>1. rx = "OPEN" /\ rx' = "idle" /\ UNCHANGED <<objects, table>>
      BY <1>1, <2>2 DEF Host!Opened, Host!Done, Host!tableVars
    <3> QED BY <1>a, <1>c, <1>d, <2>2, <3>1 DEF HostQueueInv, Chains, Goes, OnFrom
  <2> QED BY <2>1, <2>2
<1>2. CASE Host!Dispatched
  <2>a. rx = "DATA" /\ rx' = "idle" /\ table' = table
    BY <1>2 DEF Host!Dispatched, Host!Done
  <2>1. CASE found = 0
    <3>1. objects' = objects
      BY <1>2, <2>1 DEF Host!Dispatched
    <3> QED BY <1>a, <1>d, <2>a, <2>1, <3>1 DEF HostQueueInv, Chains, Goes, OnFrom
  <2>2. CASE found # 0
    <3>1. found \in DOMAIN objects /\ objects' = Giving(found, frame.data) /\ frame.data \in Data
      BY <1>2, <1>d, <2>2, <2>a DEF Host!Dispatched, Giving, HostTypes, Wire
    <3>2. /\ DOMAIN objects' = DOMAIN objects
          /\ objects'[found].queue = Append(objects[found].queue, frame.data)
          /\ \A x \in DOMAIN objects : x # found => objects'[x] = objects[x]
      BY <3>1, GivenObject DEF HostTypes
    <3>3. objects[found].queue \in Seq(Data) /\ Chain(objects[found].queue)
      <4>1. objects[found] \in Object
        BY <3>1, ObjectIs, SMTT(30) DEF HostTypes
      <4>2. << >> \in Seq(Data)
        OBVIOUS
      <4>3. objects[found].queue \in Seq(Data)
        BY <4>1, <4>2, ObjectFields
      <4> QED BY <3>1, <4>3 DEF Chains
    <3>4. objects[found].queue # << >> =>
              Last(objects[found].queue) # Host!End /\ Follows(Last(objects[found].queue), frame.data)
      BY <2>2, <2>a DEF HostQueueInv, Goes
    <3>5. /\ Chain(objects'[found].queue)
          /\ Last(objects'[found].queue) = frame.data
      BY <3>1, <3>2, <3>3, <3>4, ChainGrows
    <3>6. frame.data # Host!End /\ Awaits(frame.data, 1, toHost', conn', number', linked')
      BY <1>c, <2>a, <1>a DEF HostPipeInv, OnFrom
    <3>7. Chains'
      BY <3>2, <3>5 DEF Chains
    <3>8. HostQueueInv'
      BY <1>d, <2>a, <3>2, <3>5, <3>6 DEF HostQueueInv, Goes, OnFrom
    <3> QED BY <3>7, <3>8
  <2> QED BY <2>1, <2>2
<1>3. CASE Host!MarkClosed
  <2>a. rx = "CLOSE" /\ table' = table
    BY <1>3 DEF Host!MarkClosed
  <2>1. CASE found = 0
    <3>1. objects' = objects /\ rx' = "idle"
      BY <1>3, <2>1 DEF Host!MarkClosed, Host!Done
    <3> QED BY <1>a, <1>d, <2>a, <2>1, <3>1 DEF HostQueueInv, Chains, Goes, OnFrom
  <2>2. CASE found # 0
    <3>1. found \in DOMAIN objects /\ objects' = Host!Marked(found) /\ rx' = "pop" /\ found' = found
      BY <1>3, <1>d, <2>2 DEF Host!MarkClosed
    <3>2. /\ DOMAIN objects' = DOMAIN objects
          /\ objects'[found].queue = Append(objects[found].queue, Host!End)
          /\ \A x \in DOMAIN objects : x # found => objects'[x] = objects[x]
      BY <3>1, MarkedObject DEF HostTypes
    <3>3. objects[found].queue \in Seq(Data) /\ Chain(objects[found].queue)
      <4>1. objects[found] \in Object
        BY <3>1, ObjectIs, SMTT(30) DEF HostTypes
      <4>2. << >> \in Seq(Data)
        OBVIOUS
      <4>3. objects[found].queue \in Seq(Data)
        BY <4>1, <4>2, ObjectFields
      <4> QED BY <3>1, <4>3 DEF Chains
    <3>4. objects[found].queue # << >> => Last(objects[found].queue) # Host!End
      BY <2>2, <2>a DEF HostQueueInv, Goes
    <3>5. Chain(objects'[found].queue)
      BY <3>2, <3>3, <3>4, ChainGrows, EndIsData
    <3>6. Chains'
      BY <3>2, <3>5 DEF Chains
    <3>7. HostQueueInv'
      BY <1>d, <2>a, <3>1, <3>2 DEF HostQueueInv, Goes
    <3> QED BY <3>6, <3>7
  <2> QED BY <2>1, <2>2
<1>4. CASE Host!Pop
  <2>1. rx' = "idle" /\ table' = 0 /\ objects' = objects
    BY <1>4 DEF Host!Pop, Host!Done
  <2> QED BY <2>1 DEF HostQueueInv, Chains
<1> QED BY <1>1, <1>2, <1>3, <1>4

-----------------------------------------------------------------------------
(* The inductive invariant holds at first. *)
LEMMA HostStart == Host!Init => HostInv
<1> SUFFICES ASSUME Host!Init PROVE HostInv
  OBVIOUS
<1>1. HostTypes
  <2>1. 0 \in Nat /\ << >> \in Seq(Wire) /\ << >> \in Seq(Object) /\ 0 \in 0 .. Len(<< >>)
    OBVIOUS
  <2> QED BY <2>1 DEF Host!Init, HostTypes, Made
<1>2. TableInv /\ HostPipeInv
  BY DEF Host!Init, TableInv, HostPipeInv
<1>3. Chains /\ HostQueueInv
  BY DEF Host!Init, Chains, HostQueueInv
<1> QED BY <1>1, <1>2, <1>3 DEF HostInv

(* Every step keeps the inductive invariant. *)
LEMMA HostStep == HostInv /\ [Host!Next]_Host!hostVars => HostInv'
<1> SUFFICES ASSUME HostInv, [Host!Next]_Host!hostVars PROVE HostInv'
  OBVIOUS
<1>1. HostTypes' /\ TableInv'
  BY HostTypesKept, TableKept DEF HostInv
<1>2. CASE Host!Next
  BY <1>1, <1>2, DeviceKeepsStream, ToolKeepsStream, ReceiveKeepsStream, DispatchKeepsStream DEF Host!Next, HostInv
<1>3. CASE UNCHANGED Host!hostVars
  <2>1. HostPipeInv' /\ (managed => Chains /\ HostQueueInv)'
    BY <1>3 DEF Host!hostVars, Host!deviceVars, Host!tableVars, Host!toolVars, Host!rxVars, HostInv, HostPipeInv,
                Chains, HostQueueInv, Goes, OnFrom
  <2> QED BY <1>1, <2>1 DEF HostInv
<1> QED BY <1>2, <1>3

(* The invariant of the table and of the stream. *)
THEOREM HostInvariance == Host!Spec => []HostInv
<1>1. Host!Init => HostInv
  BY HostStart
<1>2. HostInv /\ [Host!Next]_Host!hostVars => HostInv'
  BY HostStep
<1> QED BY <1>1, <1>2, PTL DEF Host!Spec

(* A channel's queue is a stretch of the device's stream, and between two     *)
(* changes the open channel of the tool is the one in the table, and open     *)
(* (usb_channel.py).                                                          *)
THEOREM HostIsServed == Host!Spec => []ChannelServed
<1>1. ASSUME HostInv PROVE Host!OpenIsServed
  BY <1>1 DEF HostInv, TableInv, Host!OpenIsServed
<1>2. ASSUME HostInv PROVE Host!NoHoles
  BY <1>2 DEF HostInv, Chains, Chain, Follows, Host!NoHoles, Host!StreamOf
<1>3. HostInv => ChannelServed
  BY <1>1, <1>2 DEF ChannelServed, Host!ChannelServed
<1> QED BY <1>3, HostInvariance, PTL

-----------------------------------------------------------------------------
(* The recorder and the viewer. *)
IsSeq(q) == \E S : q \in Seq(S)
IsState(s) ==
    s = [x |-> s.x, y |-> s.y, ink |-> s.ink, size |-> s.size, wrap |-> s.wrap, font |-> s.font,
         stroke |-> s.stroke, smooth |-> s.smooth, w |-> s.w, h |-> s.h]

(* What a mask lets through of a picture, as a fold that carries the mask.   *)
PassesIn(allowed, m) ==
    CASE m[1] = "char" -> "text" \in allowed
      [] m[1] = "bitmap" -> "bitmap" \in allowed /\ (MaxInline = 0 \/ m[2] <= MaxInline)
      [] OTHER -> "geometry" \in allowed
KeepIn(q, m) == <<q[1], IF PassesIn(q[1], m) THEN Append(q[2], m) ELSE q[2]>>
Glyph(q, ch) == Recorder!Glyph(q, ch)
Play(p, c) == Recorder!Play(p, c)
Keep(kept, m) == Recorder!Keep(kept, m)
Writing == INSTANCE Folding WITH Op <- Glyph
Playing == INSTANCE Folding WITH Op <- Play
Keeping == INSTANCE Folding WITH Op <- Keep
KeepingIn == INSTANCE Folding WITH Op <- KeepIn
Through(allowed, marks) == KeepingIn!Fold(<<allowed, << >>>>, marks)[2]

(* The states of the recorder, s, and the viewer, u, agree on all that       *)
(* matters under the mask and is in known.                                   *)
AgreeOn(name, allowed, known) == "text" \in allowed /\ name \in known
Agree(allowed, known, u, s) ==
    /\ "style" \in allowed => u.w = s.w /\ u.h = s.h
    /\ "style" \in allowed /\ "style" \in known => u.stroke = s.stroke /\ u.smooth = s.smooth
    /\ AgreeOn("cursor", allowed, known) => u.x = s.x /\ u.y = s.y
    /\ AgreeOn("ink", allowed, known) => u.ink = s.ink
    /\ AgreeOn("size", allowed, known) => u.size = s.size
    /\ AgreeOn("wrap", allowed, known) => u.wrap = s.wrap
    /\ AgreeOn("font", allowed, known) => u.font = s.font
AllNames == {"cursor", "ink", "size", "wrap", "font", "style"}
Upright(s) == s.w = Width /\ s.h = Height

(* What the viewer would have, were the frame exported now. *)
Viewed == Playing!Fold(<<view, << >>>>, stream)
Whole == Recorder!Whole

ReplayTypes ==
    /\ IsState(panel) /\ rec = panel /\ IsState(view) /\ rec.smooth \in BOOLEAN
    /\ IsSeq(drawn) /\ IsSeq(stream) /\ IsSeq(shown) /\ IsSeq(Viewed[2])
    /\ Viewed = <<Viewed[1], Viewed[2]>> /\ IsState(Viewed[1])
    /\ ~turned => Upright(rec) /\ Upright(view) /\ Upright(Viewed[1])
ExactInv ==
    ~lost /\ ~foreign /\ Whole =>
        /\ seen = Through(mask, shown)
        /\ Viewed[2] = Through(mask, drawn)
        /\ Agree(mask, AllNames, Viewed[1], rec)
AloneInv ==
    ~turned /\ ~foreign /\ Whole =>
        /\ ~leaned[1] => Viewed[2] = Through(mask, drawn) /\ Agree(mask, set, Viewed[1], rec)
        /\ delivered /\ ~leaned[2] => seen = Through(mask, shown)
ReplayInv == ReplayTypes /\ ExactInv /\ AloneInv

(* Sequences of anything. *)
LEMMA SeqFacts ==
    ASSUME NEW q, NEW r, IsSeq(q), IsSeq(r)
    PROVE  IsSeq(q \o r) /\ q \o << >> = q /\ << >> \o q = q /\ IsSeq(<< >>)
<1>1. PICK S : q \in Seq(S)
  BY DEF IsSeq
<1>2. PICK T : r \in Seq(T)
  BY DEF IsSeq
<1>3. q \in Seq(S \cup T) /\ r \in Seq(S \cup T)
  BY <1>1, <1>2
<1>4. q \o r \in Seq(S \cup T) /\ q \o << >> = q /\ << >> \o q = q /\ << >> \in Seq(S \cup T)
  BY <1>3
<1> QED BY <1>4 DEF IsSeq

LEMMA SeqAppend ==
    ASSUME NEW q, NEW e, IsSeq(q)
    PROVE  IsSeq(Append(q, e)) /\ Append(q, e) = q \o <<e>> /\ IsSeq(<<e>>)
<1>1. PICK S : q \in Seq(S)
  BY DEF IsSeq
<1>2. q \in Seq(S \cup {e})
  BY <1>1
<1>3. Append(q, e) \in Seq(S \cup {e}) /\ Append(q, e) = q \o <<e>> /\ <<e>> \in Seq(S \cup {e})
  BY <1>2
<1> QED BY <1>3 DEF IsSeq

LEMMA SeqAssociates ==
    ASSUME NEW q, NEW r, NEW t, IsSeq(q), IsSeq(r), IsSeq(t)
    PROVE  (q \o r) \o t = q \o (r \o t)
<1>1. PICK Q : q \in Seq(Q)
  BY DEF IsSeq
<1>2. PICK R : r \in Seq(R)
  BY DEF IsSeq
<1>3. PICK T : t \in Seq(T)
  BY DEF IsSeq
<1>4. q \in Seq(Q \cup R \cup T) /\ r \in Seq(Q \cup R \cup T) /\ t \in Seq(Q \cup R \cup T)
  BY <1>1, <1>2, <1>3
<1> QED BY <1>4

-----------------------------------------------------------------------------
(* A mask on a picture *)

(* What passes is a sequence, and the mask is carried along. *)
LEMMA ThroughCarries ==
    ASSUME NEW M, NEW q, IsSeq(q)
    PROVE  KeepingIn!Fold(<<M, << >>>>, q) = <<M, Through(M, q)>> /\ IsSeq(Through(M, q))
<1>1. PICK S : q \in Seq(S)
  BY DEF IsSeq
<1> DEFINE W == [k \in 0 .. Len(q) |-> {<<M, r>> : r \in Seq(S)}]
<1>2. <<M, << >>>> \in W[0]
  BY <1>1
<1>3. \A k \in 1 .. Len(q) : \A v \in W[k - 1] : KeepIn(v, q[k]) \in W[k]
  <2> SUFFICES ASSUME NEW k \in 1 .. Len(q), NEW r \in Seq(S) PROVE KeepIn(<<M, r>>, q[k]) \in {<<M, t>> : t \in Seq(S)}
    BY <1>1
  <2>1. q[k] \in S
    BY <1>1
  <2>2. Append(r, q[k]) \in Seq(S)
    BY <2>1
  <2> QED BY <2>2 DEF KeepIn
<1> HIDE DEF W
<1>4. KeepingIn!Fold(<<M, << >>>>, q) \in W[Len(q)]
  BY ONLY <1>1, <1>2, <1>3, KeepingIn!FoldKeeps
<1>5. PICK r \in Seq(S) : KeepingIn!Fold(<<M, << >>>>, q) = <<M, r>>
  BY <1>1, <1>4 DEF W
<1>6. Through(M, q) = r
  BY <1>5 DEF Through
<1> QED BY <1>5, <1>6 DEF IsSeq

(* One mark more, if it passes. *)
LEMMA ThroughAppend ==
    ASSUME NEW M, NEW q, NEW e, IsSeq(q)
    PROVE  Through(M, q \o <<e>>) = IF PassesIn(M, e) THEN Through(M, q) \o <<e>> ELSE Through(M, q)
<1>1. PICK S : q \in Seq(S)
  BY DEF IsSeq
<1>2. q \in Seq(S \cup {e}) /\ e \in S \cup {e}
  BY <1>1
<1>3. KeepingIn!Fold(<<M, << >>>>, Append(q, e)) = KeepIn(KeepingIn!Fold(<<M, << >>>>, q), e)
  BY <1>2, KeepingIn!FoldAppend
<1>4. KeepIn(<<M, Through(M, q)>>, e)[2] = IF PassesIn(M, e) THEN Append(Through(M, q), e) ELSE Through(M, q)
  BY DEF KeepIn
<1>5. Through(M, Append(q, e)) = IF PassesIn(M, e) THEN Append(Through(M, q), e) ELSE Through(M, q)
  BY <1>3, <1>4, ThroughCarries DEF Through
<1>6. Append(q, e) = q \o <<e>> /\ Append(Through(M, q), e) = Through(M, q) \o <<e>>
  BY SeqAppend, ThroughCarries
<1> QED BY <1>5, <1>6

LEMMA ThroughNone == ASSUME NEW M PROVE Through(M, << >>) = << >>
<1>1. KeepingIn!Fold(<<M, << >>>>, << >>) = <<M, << >>>>
  BY KeepingIn!FoldNone
<1> QED BY <1>1 DEF Through

(* Of marks after others, all pass or none does. *)
LEMMA ThroughAll ==
    ASSUME NEW M, NEW q, NEW r, IsSeq(q), IsSeq(r), NEW p \in BOOLEAN, \A i \in DOMAIN r : PassesIn(M, r[i]) <=> p
    PROVE  Through(M, q \o r) = IF p THEN Through(M, q) \o r ELSE Through(M, q)
<1>1. PICK S : r \in Seq(S)
  BY DEF IsSeq
<1> DEFINE first(k) == SubSeq(r, 1, k)
           T == {k \in Nat : k <= Len(r) =>
                     Through(M, q \o first(k)) = IF p THEN Through(M, q) \o first(k) ELSE Through(M, q)}
<1>2. \A k \in 0 .. Len(r) : IsSeq(first(k))
  <2>1. \A k \in 0 .. Len(r) : first(k) \in Seq(S)
    BY <1>1
  <2> QED BY <2>1 DEF IsSeq
<1>3. first(0) = << >> /\ first(Len(r)) = r
  BY <1>1
<1>4. \A k \in 0 .. (Len(r) - 1) : first(k + 1) = Append(first(k), r[k + 1])
  BY <1>1
<1>t. IsSeq(Through(M, q))
  BY ThroughCarries, Zenon
<1>l. Len(r) \in Nat /\ DOMAIN r = 1 .. Len(r)
  BY <1>1
<1>5. IsSeq(Through(M, q)) /\ Len(r) \in Nat /\ DOMAIN r = 1 .. Len(r)
  BY <1>t, <1>l
<1> HIDE DEF first
<1>6. 0 \in T
  BY <1>3, <1>5, SeqFacts
<1>7. ASSUME NEW k \in Nat, k \in T PROVE k + 1 \in T
  <2> SUFFICES ASSUME k + 1 <= Len(r)
               PROVE  Through(M, q \o first(k + 1)) =
                          IF p THEN Through(M, q) \o first(k + 1) ELSE Through(M, q)
    <3>1. k + 1 \in Nat
      OBVIOUS
    <3> QED BY <3>1
  <2>1. k \in 0 .. (Len(r) - 1) /\ k \in 0 .. Len(r) /\ k + 1 \in DOMAIN r /\ k <= Len(r)
    BY <1>5
  <2>2. first(k + 1) = first(k) \o <<r[k + 1]>> /\ IsSeq(<<r[k + 1]>>) /\ IsSeq(first(k))
    BY <2>1, <1>2, <1>4, SeqAppend
  <2>3. q \o first(k + 1) = (q \o first(k)) \o <<r[k + 1]>> /\ IsSeq(q \o first(k))
    <3>1. IsSeq(q \o first(k))
      BY <2>2, SeqFacts, Zenon
    <3>2. (q \o first(k)) \o <<r[k + 1]>> = q \o (first(k) \o <<r[k + 1]>>)
      BY ONLY <2>2, IsSeq(q), SeqAssociates
    <3> QED BY <2>2, <3>1, <3>2, Zenon
  <2>4. Through(M, q) \o first(k + 1) = (Through(M, q) \o first(k)) \o <<r[k + 1]>>
    <3>1. (Through(M, q) \o first(k)) \o <<r[k + 1]>> = Through(M, q) \o (first(k) \o <<r[k + 1]>>)
      BY ONLY <2>2, <1>t, SeqAssociates
    <3> QED BY <2>2, <3>1, Zenon
  <2>5. Through(M, q \o first(k)) = IF p THEN Through(M, q) \o first(k) ELSE Through(M, q)
    BY <1>7, <2>1
  <2>6. PassesIn(M, r[k + 1]) <=> p
    BY <2>1
  <2>7. Through(M, (q \o first(k)) \o <<r[k + 1]>>) =
            IF PassesIn(M, r[k + 1]) THEN Through(M, q \o first(k)) \o <<r[k + 1]>>
            ELSE Through(M, q \o first(k))
    BY <2>3, ThroughAppend
  <2> QED BY <2>3, <2>4, <2>5, <2>6, <2>7
<1> HIDE DEF T
<1>8. Nat \subseteq T
  BY <1>6, <1>7, KeepingIn!Induction
<1>9. Len(r) \in T
  BY <1>8, <1>5
<1> QED BY <1>9, <1>3, <1>5 DEF T

(* It is what Recorded computes. *)
LEMMA RecordedIsThrough == ASSUME NEW q, IsSeq(q) PROVE Recorder!Recorded(q) = Through(mask, q)
<1>1. PICK S : q \in Seq(S)
  BY DEF IsSeq
<1>2. Recorder!Recorded(q) = Keeping!Fold(<< >>, q)
  BY DEF Recorder!Recorded, Recorder!FoldLeft, Recorder!MapThenFoldSet, Recorder!Max, Keeping!Fold,
         Keeping!MapThenFoldSet, Keeping!Greatest, Keep
<1>3. PICK f : Keeping!Runs(f, << >>, q) /\ Keeping!Fold(<< >>, q) = f[Len(q)]
  BY <1>1, Keeping!FoldRuns
<1>4. PICK g : KeepingIn!Runs(g, <<mask, << >>>>, q) /\ KeepingIn!Fold(<<mask, << >>>>, q) = g[Len(q)]
  BY <1>1, KeepingIn!FoldRuns
<1> DEFINE T == {k \in Nat : k <= Len(q) => g[k] = <<mask, f[k]>>}
<1>5. Len(q) \in Nat
  BY <1>1
<1>6. 0 \in T
  BY <1>3, <1>4 DEF Keeping!Runs, KeepingIn!Runs
<1>7. ASSUME NEW k \in Nat, k \in T PROVE k + 1 \in T
  <2> SUFFICES ASSUME k + 1 <= Len(q) PROVE g[k + 1] = <<mask, f[k + 1]>>
    OBVIOUS
  <2>1. g[k] = <<mask, f[k]>> /\ k + 1 \in 1 .. Len(q)
    BY <1>5, <1>7
  <2>2. f[k + 1] = Keep(f[k], q[k + 1]) /\ g[k + 1] = KeepIn(g[k], q[k + 1])
    <3>1. (k + 1) - 1 = k
      OBVIOUS
    <3>2. /\ f[k + 1] = Keep(f[(k + 1) - 1], q[k + 1])
          /\ g[k + 1] = KeepIn(g[(k + 1) - 1], q[k + 1])
      BY ONLY <1>3, <1>4, <2>1, Zenon DEF Keeping!Runs, KeepingIn!Runs
    <3> QED BY ONLY <3>1, <3>2, Zenon
  <2>3. Recorder!Passes(q[k + 1]) <=> PassesIn(mask, q[k + 1])
    BY DEF Recorder!Passes, PassesIn, Recorder!Allow
  <2> QED BY <2>1, <2>2, <2>3 DEF Keep, KeepIn, Recorder!Keep
<1> HIDE DEF T
<1>8. Len(q) \in T
  BY <1>5, <1>6, <1>7, KeepingIn!Induction
<1> QED BY <1>2, <1>3, <1>4, <1>5, <1>8 DEF T, Through

-----------------------------------------------------------------------------
(* What drawing does to the picture and the state *)

(* A state with the cursor put elsewhere. *)
Put(s, x, y) ==
    [x |-> x, y |-> y, ink |-> s.ink, size |-> s.size, wrap |-> s.wrap, font |-> s.font,
     stroke |-> s.stroke, smooth |-> s.smooth, w |-> s.w, h |-> s.h]

WithX(s, x) == [s EXCEPT !.x = x]
WithXY(s, x, y) == [s EXCEPT !.x = x, !.y = y]

LEMMA PutIsExcept ==
    ASSUME NEW s, IsState(s), NEW x, NEW y
    PROVE  WithX(s, x) = Put(s, x, s.y) /\ WithXY(s, x, y) = Put(s, x, y)
<1> DEFINE t == Put(s, s.x, s.y)
           r == Put(s, x, s.y)
<1>1. s = t
  BY DEF IsState, Put
<1>2. [t EXCEPT !.x = x] = r
  BY DEF Put
<1>3. [r EXCEPT !.y = y] = Put(s, x, y)
  BY DEF Put
<1> HIDE DEF t
<1>4. [[t EXCEPT !.x = x] EXCEPT !.y = y] = Put(s, x, y)
  BY <1>2, <1>3, Zenon
<1> QED BY <1>1, <1>2, <1>4, Zenon DEF WithX, WithXY

LEMMA PutFields ==
    ASSUME NEW s, NEW x, NEW y
    PROVE  LET t == Put(s, x, y)
           IN  /\ IsState(t) /\ t.x = x /\ t.y = y /\ t.ink = s.ink /\ t.size = s.size /\ t.wrap = s.wrap
               /\ t.font = s.font /\ t.stroke = s.stroke /\ t.smooth = s.smooth /\ t.w = s.w /\ t.h = s.h
               /\ \A a, b : Put(t, a, b) = Put(s, a, b)
               /\ IsState(s) => s = Put(s, s.x, s.y)
  BY DEF IsState, Put

(* What a character does. *)
Turns(s) == s.wrap /\ s.x + Recorder!Scale(s) > s.w
CharAt(s, ch, left) ==
    IF ch = "newline" THEN left ELSE (IF Turns(s) THEN left ELSE s.x) + Recorder!Scale(s)
CharDown(s, ch) == IF ch = "newline" \/ Turns(s) THEN s.y + Recorder!Scale(s) ELSE s.y
CharShown(s, ch, left, origin, turn) ==
    IF ch = "newline" THEN << >>
    ELSE LET at == [x |-> IF Turns(s) THEN left ELSE s.x, y |-> CharDown(s, ch)]
         IN  <<<<"char", Recorder!RotatePoint(at, origin, turn), ch, s.ink, s.size, s.font>>>>

LEMMA NewLineIs ==
    ASSUME NEW s, IsState(s), NEW left PROVE Recorder!NewLine(s, left) = Put(s, left, s.y + Recorder!Scale(s))
<1>1. Recorder!NewLine(s, left) = WithXY(s, left, s.y + Recorder!Scale(s))
  BY DEF Recorder!NewLine, WithXY
<1> QED BY <1>1, PutIsExcept

CharIs(s, P, ch, left, origin, turn) ==
    Recorder!Char(<<s, P>>, ch, left, origin, turn) =
        <<Put(s, CharAt(s, ch, left), CharDown(s, ch)), P \o CharShown(s, ch, left, origin, turn)>>

LEMMA CharDoes ==
    ASSUME NEW s, IsState(s), NEW P, IsSeq(P), NEW ch, NEW left, NEW origin, NEW turn
    PROVE  CharIs(s, P, ch, left, origin, turn)
<1> USE DEF CharIs
<1> DEFINE At(a) == IF Turns(a) THEN Recorder!NewLine(a, left) ELSE a
           Mark(a, b) == <<"char", Recorder!RotatePoint(a, origin, turn), ch, b.ink, b.size, b.font>>
           Further(a, b) == WithX(a, a.x + Recorder!Scale(b))
           Does(a, b) == IF ch = "newline" THEN <<Recorder!NewLine(a, left), b>>
                         ELSE <<Further(At(a), a), Append(b, Mark(At(a), a))>>
           size == Recorder!Scale(s)
<1>p. PICK p : p = <<s, P>>
  OBVIOUS
<1>q. p[1] = s /\ p[2] = P
  BY <1>p
<1>d. Recorder!Char(p, ch, left, origin, turn) = Does(p[1], p[2])
  BY DEF Recorder!Char, Turns, WithX
<1> HIDE DEF Does
<1>1. Recorder!Char(<<s, P>>, ch, left, origin, turn) = Does(s, P)
  BY ONLY <1>p, <1>q, <1>d, Zenon
<1> USE DEF Does
<1>2. CASE ch = "newline"
  <2>1. P \o << >> = P
    BY SeqFacts
  <2>2. Recorder!Char(<<s, P>>, ch, left, origin, turn) = <<Recorder!NewLine(s, left), P>>
    BY ONLY <1>1, <1>2, Zenon
  <2>3. CharAt(s, ch, left) = left /\ CharDown(s, ch) = s.y + size /\ CharShown(s, ch, left, origin, turn) = << >>
    BY <1>2, Zenon DEF CharAt, CharDown, CharShown
  <2> QED BY <2>1, <2>2, <2>3, NewLineIs, Zenon
<1>3. CASE ch # "newline"
  <2>1. PICK x, y : x = (IF Turns(s) THEN left ELSE s.x) /\ y = CharDown(s, ch)
    OBVIOUS
  <2>2. PICK t : t = At(s)
    OBVIOUS
  <2>3. t = Put(s, x, y)
    <3>1. CASE Turns(s)
      BY <1>3, <2>1, <2>2, <3>1, NewLineIs, Zenon DEF CharDown
    <3>2. CASE ~Turns(s)
      BY <1>3, <2>1, <2>2, <3>2, PutFields DEF CharDown
    <3> QED BY <3>1, <3>2
  <2>4. /\ IsState(t) /\ t.x = x /\ t.y = y /\ t.ink = s.ink /\ t.size = s.size /\ t.font = s.font
        /\ \A a, b : Put(t, a, b) = Put(s, a, b)
    BY ONLY <2>3, PutFields
  <2>7. Further(t, s) = Put(s, x + size, y)
    <3>1. Further(t, s) = Put(t, t.x + size, t.y)
      BY ONLY <2>4, PutIsExcept
    <3> QED BY ONLY <2>4, <3>1, Zenon
  <2>8. Recorder!RotatePoint(t, origin, turn) = Recorder!RotatePoint([x |-> x, y |-> y], origin, turn)
    BY <2>4 DEF Recorder!RotatePoint
  <2> DEFINE glyph == <<"char", Recorder!RotatePoint([x |-> x, y |-> y], origin, turn), ch, s.ink, s.size, s.font>>
  <2>10. Mark(t, s) = glyph
    BY ONLY <2>4, <2>8, Zenon
  <2>11. CharShown(s, ch, left, origin, turn) = <<glyph>>
    BY ONLY <1>3, <2>1, Zenon DEF CharShown
  <2>12. CharAt(s, ch, left) = x + size /\ CharDown(s, ch) = y
    BY ONLY <1>3, <2>1, Zenon DEF CharAt
  <2>13. Recorder!Char(<<s, P>>, ch, left, origin, turn) = <<Further(t, s), Append(P, Mark(t, s))>>
    BY ONLY <1>1, <1>3, <2>2, Zenon
  <2> HIDE DEF Further, Mark, glyph, size
  <2>9. Append(P, glyph) = P \o <<glyph>>
    BY SeqAppend
  <2> QED BY ONLY <2>7, <2>9, <2>10, <2>11, <2>12, <2>13, Zenon
<1> QED BY <1>2, <1>3

(* Two runs of a text that began alike: the same cursor, and the same        *)
(* characters appended to what was there.                                    *)
Characters(n) == IsSeq(n) /\ \A i \in DOMAIN n : n[i][1] = "char"
WroteAlike(p, q, s, u, D, V) ==
    \E n, x, y : Characters(n) /\ p = <<Put(s, x, y), D \o n>> /\ q = <<Put(u, x, y), V \o n>>
TextSame(s, u) ==
    s.ink = u.ink /\ s.size = u.size /\ s.wrap = u.wrap /\ s.font = u.font /\ s.w = u.w

LEMMA CharSame ==
    ASSUME NEW s, NEW u, TextSame(s, u), s.x = u.x, s.y = u.y, NEW ch, NEW left, NEW origin, NEW turn
    PROVE  /\ CharAt(s, ch, left) = CharAt(u, ch, left) /\ CharDown(s, ch) = CharDown(u, ch)
           /\ CharShown(s, ch, left, origin, turn) = CharShown(u, ch, left, origin, turn)
<1>1. Recorder!Scale(s) = Recorder!Scale(u)
  BY Zenon DEF Recorder!Scale, TextSame
<1>2. Turns(s) <=> Turns(u)
  BY <1>1, Zenon DEF Turns, TextSame
<1>3. CharAt(s, ch, left) = CharAt(u, ch, left) /\ CharDown(s, ch) = CharDown(u, ch)
  BY <1>1, <1>2, Zenon DEF CharAt, CharDown
<1> QED BY <1>2, <1>3, Zenon DEF CharShown, TextSame

LEMMA ShownIsChar ==
    ASSUME NEW s, NEW ch, NEW left, NEW origin, NEW turn
    PROVE  Characters(CharShown(s, ch, left, origin, turn))
<1> DEFINE c == CharShown(s, ch, left, origin, turn)
<1>1. CASE ch = "newline"
  <2>1. c = << >>
    BY <1>1, Zenon DEF CharShown
  <2>2. << >> \in Seq({}) /\ DOMAIN << >> = {}
    OBVIOUS
  <2> QED BY <2>1, <2>2, Zenon DEF Characters, IsSeq
<1>2. CASE ch # "newline"
  <2>1. PICK g, a : g = <<"char", a, ch, s.ink, s.size, s.font>> /\ c = <<g>>
    BY <1>2, Zenon DEF CharShown
  <2>2. g[1] = "char" /\ <<g>> \in Seq({g}) /\ \A i \in DOMAIN <<g>> : <<g>>[i] = g
    BY <2>1
  <2> QED BY ONLY <2>1, <2>2, Zenon DEF Characters, IsSeq
<1> QED BY <1>1, <1>2

LEMMA CharactersJoin ==
    ASSUME NEW n, NEW c, Characters(n), Characters(c) PROVE Characters(n \o c)
<1>1. PICK N : n \in Seq(N)
  BY DEF Characters, IsSeq
<1>2. PICK C : c \in Seq(C)
  BY DEF Characters, IsSeq
<1>3. n \in Seq(N \cup C) /\ c \in Seq(N \cup C)
  BY <1>1, <1>2
<1>4. \A i \in DOMAIN (n \o c) : (n \o c)[i][1] = "char"
  BY <1>3 DEF Characters
<1>5. n \o c \in Seq(N \cup C)
  BY <1>3
<1> QED BY <1>4, <1>5 DEF Characters, IsSeq

(* A character more on either. *)
LEMMA CharAlike ==
    ASSUME NEW s, NEW u, TextSame(s, u), NEW D, NEW V, IsSeq(D), IsSeq(V),
           NEW p, NEW q, WroteAlike(p, q, s, u, D, V), NEW ch, NEW left, NEW origin, NEW turn
    PROVE  WroteAlike(Recorder!Char(p, ch, left, origin, turn), Recorder!Char(q, ch, left, origin, turn),
                      s, u, D, V)
<1>1. PICK n, x, y : Characters(n) /\ p = <<Put(s, x, y), D \o n>> /\ q = <<Put(u, x, y), V \o n>>
  BY DEF WroteAlike
<1>2. PICK t, v : t = Put(s, x, y) /\ v = Put(u, x, y)
  OBVIOUS
<1>3. /\ IsState(t) /\ t.x = x /\ t.y = y /\ t.ink = s.ink /\ t.size = s.size /\ t.wrap = s.wrap
      /\ t.font = s.font /\ t.w = s.w /\ \A a, b : Put(t, a, b) = Put(s, a, b)
  BY ONLY <1>2, PutFields
<1>4. /\ IsState(v) /\ v.x = x /\ v.y = y /\ v.ink = u.ink /\ v.size = u.size /\ v.wrap = u.wrap
      /\ v.font = u.font /\ v.w = u.w /\ \A a, b : Put(v, a, b) = Put(u, a, b)
  BY ONLY <1>2, PutFields
<1>5. TextSame(t, v) /\ t.x = v.x /\ t.y = v.y
  BY <1>3, <1>4, Zenon DEF TextSame
<1>6. PICK c, x1, y1 : /\ c = CharShown(t, ch, left, origin, turn)
                       /\ x1 = CharAt(t, ch, left) /\ y1 = CharDown(t, ch)
  OBVIOUS
<1>7. c = CharShown(v, ch, left, origin, turn) /\ x1 = CharAt(v, ch, left) /\ y1 = CharDown(v, ch)
  BY ONLY <1>5, <1>6, CharSame
<1>n. IsSeq(n) /\ IsSeq(c) /\ Characters(c) /\ Characters(n)
  BY <1>1, <1>6, ShownIsChar DEF Characters
<1>d. IsSeq(D \o n) /\ IsSeq(V \o n)
  BY <1>n, SeqFacts
<1>8. PICK P, Q : P = D \o n /\ Q = V \o n
  OBVIOUS
<1>9. Recorder!Char(<<t, P>>, ch, left, origin, turn) = <<Put(t, x1, y1), P \o c>>
  <2>1. Recorder!Char(<<t, P>>, ch, left, origin, turn) =
            <<Put(t, CharAt(t, ch, left), CharDown(t, ch)), P \o CharShown(t, ch, left, origin, turn)>>
    <3>1. IsState(t) /\ IsSeq(P)
      BY <1>3, <1>8, <1>d
    <3>2. CharIs(t, P, ch, left, origin, turn)
      BY ONLY <3>1, CharDoes
    <3> QED BY ONLY <3>2, Zenon DEF CharIs
  <2> QED BY ONLY <2>1, <1>6, Zenon
<1>10. Recorder!Char(<<v, Q>>, ch, left, origin, turn) = <<Put(v, x1, y1), Q \o c>>
  <2>1. Recorder!Char(<<v, Q>>, ch, left, origin, turn) =
            <<Put(v, CharAt(v, ch, left), CharDown(v, ch)), Q \o CharShown(v, ch, left, origin, turn)>>
    <3>1. IsState(v) /\ IsSeq(Q)
      BY <1>4, <1>8, <1>d
    <3>2. CharIs(v, Q, ch, left, origin, turn)
      BY ONLY <3>1, CharDoes
    <3> QED BY ONLY <3>2, Zenon DEF CharIs
  <2> QED BY ONLY <2>1, <1>7, Zenon
<1>11. P \o c = D \o (n \o c)
  BY ONLY <1>8, <1>n, IsSeq(D), SeqAssociates
<1>12. Q \o c = V \o (n \o c)
  BY ONLY <1>8, <1>n, IsSeq(V), SeqAssociates
<1>13. PICK m : m = n \o c
  OBVIOUS
<1>14. Characters(m)
  BY <1>n, <1>13, CharactersJoin
<1>15. p = <<t, P>> /\ q = <<v, Q>>
  BY ONLY <1>1, <1>2, <1>8, Zenon
<1>16. /\ Recorder!Char(p, ch, left, origin, turn) = <<Put(s, x1, y1), D \o m>>
       /\ Recorder!Char(q, ch, left, origin, turn) = <<Put(u, x1, y1), V \o m>>
  BY ONLY <1>3, <1>4, <1>9, <1>10, <1>11, <1>12, <1>13, <1>15, Zenon
<1> QED BY ONLY <1>14, <1>16, Zenon DEF WroteAlike

(* Texts, from their beginning. *)
LEMMA WriteIsFold ==
    ASSUME NEW p, NEW text, NEW left, NEW origin, NEW turn
    PROVE  Recorder!Write(p, text, left, origin, turn) =
               Writing!Fold(<<p, [left |-> left, origin |-> origin, turn |-> turn]>>, text)[1]
  BY DEF Recorder!Write, Recorder!FoldLeft, Recorder!MapThenFoldSet, Recorder!Max, Writing!Fold,
         Writing!MapThenFoldSet, Writing!Greatest, Glyph

LEMMA WriteAlike ==
    ASSUME NEW s, NEW u, IsState(s), IsState(u), TextSame(s, u), s.x = u.x, s.y = u.y,
           NEW D, NEW V, IsSeq(D), IsSeq(V), NEW text, IsSeq(text), NEW left, NEW origin, NEW turn
    PROVE  WroteAlike(Recorder!Write(<<s, D>>, text, left, origin, turn),
                      Recorder!Write(<<u, V>>, text, left, origin, turn), s, u, D, V)
<1>1. PICK S : text \in Seq(S)
  BY DEF IsSeq
<1> DEFINE st == [left |-> left, origin |-> origin, turn |-> turn]
<1>2. PICK f : Writing!Runs(f, <<<<s, D>>, st>>, text) /\ Writing!Fold(<<<<s, D>>, st>>, text) = f[Len(text)]
  BY <1>1, Writing!FoldRuns
<1>3. PICK g : Writing!Runs(g, <<<<u, V>>, st>>, text) /\ Writing!Fold(<<<<u, V>>, st>>, text) = g[Len(text)]
  BY <1>1, Writing!FoldRuns
<1> DEFINE Alike(k) == /\ WroteAlike(f[k][1], g[k][1], s, u, D, V)
                       /\ f[k] = <<f[k][1], st>> /\ g[k] = <<g[k][1], st>>
           T == {k \in Nat : k <= Len(text) => Alike(k)}
<1>l. Len(text) \in Nat
  BY <1>1
<1>4. Alike(0)
  <2>1. f[0] = <<<<s, D>>, st>> /\ g[0] = <<<<u, V>>, st>>
    BY ONLY <1>2, <1>3, Zenon DEF Writing!Runs
  <2>2. s = Put(s, s.x, s.y) /\ u = Put(u, s.x, s.y)
    BY PutFields
  <2>3. D \o << >> = D /\ V \o << >> = V
    BY SeqFacts
  <2>4. Characters(<< >>)
    <3>1. << >> \in Seq({}) /\ DOMAIN << >> = {}
      OBVIOUS
    <3> QED BY ONLY <3>1, Zenon DEF Characters, IsSeq
  <2>5. WroteAlike(<<s, D>>, <<u, V>>, s, u, D, V)
    BY ONLY <2>2, <2>3, <2>4, Zenon DEF WroteAlike
  <2>6. f[0][1] = <<s, D>> /\ g[0][1] = <<u, V>>
    BY ONLY <2>1
  <2> HIDE DEF st
  <2> QED BY ONLY <2>1, <2>5, <2>6, Zenon
<1>5. ASSUME NEW k \in Nat, Alike(k), k + 1 <= Len(text) PROVE Alike(k + 1)
  <2>1. (k + 1) - 1 = k /\ k + 1 \in 1 .. Len(text)
    BY <1>5, <1>l
  <2>2. PICK a, b, ch : a = f[k][1] /\ b = g[k][1] /\ ch = text[k + 1]
    OBVIOUS
  <2>3. f[k + 1] = Glyph(f[(k + 1) - 1], ch) /\ g[k + 1] = Glyph(g[(k + 1) - 1], ch)
    BY ONLY <1>2, <1>3, <2>1, <2>2, Zenon DEF Writing!Runs
  <2>4. f[k + 1] = Glyph(<<a, st>>, ch) /\ g[k + 1] = Glyph(<<b, st>>, ch)
    BY ONLY <2>1, <2>2, <2>3, <1>5, Zenon
  <2>5. \A e : Glyph(<<e, st>>, ch) = <<Recorder!Char(e, ch, left, origin, turn), st>>
    BY DEF Glyph, Recorder!Glyph
  <2>6. WroteAlike(a, b, s, u, D, V)
    BY ONLY <2>2, <1>5, Zenon
  <2> DEFINE a1 == Recorder!Char(a, ch, left, origin, turn)
             b1 == Recorder!Char(b, ch, left, origin, turn)
  <2>7. WroteAlike(a1, b1, s, u, D, V)
    BY ONLY <2>6, TextSame(s, u), IsSeq(D), IsSeq(V), CharAlike
  <2> HIDE DEF st, a1, b1
  <2>8. f[k + 1] = <<a1, st>> /\ g[k + 1] = <<b1, st>>
    BY ONLY <2>4, <2>5, Zenon DEF a1, b1
  <2>9. f[k + 1][1] = a1 /\ g[k + 1][1] = b1
    BY ONLY <2>8
  <2> QED BY ONLY <2>7, <2>8, <2>9, Zenon
<1> HIDE DEF Alike
<1>6. 0 \in T
  BY <1>4
<1>7. ASSUME NEW k \in Nat, k \in T PROVE k + 1 \in T
  BY <1>5, <1>7, <1>l
<1> HIDE DEF T
<1>8. Len(text) \in T
  BY <1>l, <1>6, <1>7, KeepingIn!Induction
<1>9. Alike(Len(text))
  BY ONLY <1>8, <1>l DEF T
<1>10. /\ Recorder!Write(<<s, D>>, text, left, origin, turn) = f[Len(text)][1]
       /\ Recorder!Write(<<u, V>>, text, left, origin, turn) = g[Len(text)][1]
  BY ONLY <1>2, <1>3, WriteIsFold, Zenon
<1> QED BY ONLY <1>9, <1>10, Zenon DEF Alike

(* The calls, as ReplayConstants has them. *)
GeometryOps == {"drawRect", "fillRect", "fillScreen"}
StyleOps == {"setStrokeWidth", "setAntiAlias", "setDrawStyle", "setRotation"}
TextSetters == {"setCursor", "setTextColor", "setTextSize", "setTextWrap", "setFont"}
Writers == {"writeText", "println", "setText"}
Proper(call, arg) ==
    /\ call \in GeometryOps \cup {"drawBitmap"} \cup StyleOps \cup TextSetters \cup Writers
    /\ call = "writeText" => IsSeq(arg)
    /\ call = "setText" => /\ arg = [x |-> arg.x, ink |-> arg.ink, font |-> arg.font, turn |-> arg.turn,
                                   text |-> arg.text]
                         /\ IsSeq(arg.text)
    /\ call \in {"setTextWrap", "setAntiAlias"} => arg \in BOOLEAN
    /\ call = "setDrawStyle" => arg = <<arg[1], arg[2]>> /\ arg[2] \in BOOLEAN

LEMMA FamilyIs ==
    ASSUME NEW call, NEW arg, Proper(call, arg)
    PROVE  /\ call \in GeometryOps <=> Recorder!Family(call) = "geometry"
           /\ call = "drawBitmap" <=> Recorder!Family(call) = "bitmap"
           /\ call \in StyleOps <=> Recorder!Family(call) = "style"
           /\ call \in TextSetters \cup Writers <=> Recorder!Family(call) = "text"
           /\ Recorder!Family(call) \in {"geometry", "bitmap", "style", "text"}
  BY DEF Proper, GeometryOps, StyleOps, TextSetters, Writers, Recorder!Family

(* The setters, field by field. *)
Retains(s, t, names) ==
    /\ "x" \in names => t.x = s.x /\ t.y = s.y
    /\ "ink" \in names => t.ink = s.ink
    /\ "size" \in names => t.size = s.size
    /\ "wrap" \in names => t.wrap = s.wrap
    /\ "font" \in names => t.font = s.font
    /\ "stroke" \in names => t.stroke = s.stroke
    /\ "smooth" \in names => t.smooth = s.smooth
    /\ "w" \in names => t.w = s.w /\ t.h = s.h
FieldNames == {"x", "ink", "size", "wrap", "font", "stroke", "smooth", "w"}
State(x, y, i, z, r, f, k, m, w, h) ==
    [x |-> x, y |-> y, ink |-> i, size |-> z, wrap |-> r, font |-> f, stroke |-> k, smooth |-> m, w |-> w, h |-> h]

LEMMA StateFields ==
    ASSUME NEW x, NEW y, NEW i, NEW z, NEW r, NEW f, NEW k, NEW m, NEW w, NEW h
    PROVE  LET t == State(x, y, i, z, r, f, k, m, w, h)
           IN  /\ IsState(t) /\ t.x = x /\ t.y = y /\ t.ink = i /\ t.size = z /\ t.wrap = r /\ t.font = f
               /\ t.stroke = k /\ t.smooth = m /\ t.w = w /\ t.h = h
  BY DEF State, IsState

SetterIs(s, call, arg, t) ==
    /\ call = "setCursor" =>
           IsState(t) /\ t.x = arg /\ t.y = 0 /\ Retains(s, t, FieldNames \ {"x"})
    /\ call = "setTextColor" => IsState(t) /\ t.ink = arg /\ Retains(s, t, FieldNames \ {"ink"})
    /\ call = "setTextSize" =>
           IsState(t) /\ t.size = (IF arg = 0 THEN 1 ELSE arg) /\ Retains(s, t, FieldNames \ {"size"})
    /\ call = "setTextWrap" => IsState(t) /\ t.wrap = arg /\ Retains(s, t, FieldNames \ {"wrap"})
    /\ call = "setFont" => IsState(t) /\ t.font = arg /\ Retains(s, t, FieldNames \ {"font"})
    /\ call = "setStrokeWidth" => IsState(t) /\ t.stroke = arg /\ Retains(s, t, FieldNames \ {"stroke"})
    /\ call = "setAntiAlias" => IsState(t) /\ t.smooth = arg /\ Retains(s, t, FieldNames \ {"smooth"})
    /\ call = "setDrawStyle" =>
           /\ IsState(t) /\ t.stroke = arg[1] /\ t.smooth = arg[2]
           /\ Retains(s, t, FieldNames \ {"stroke", "smooth"})
    /\ call = "setRotation" =>
           /\ IsState(t) /\ Retains(s, t, FieldNames \ {"w"})
           /\ t.w = (IF arg % 2 = 1 THEN s.h ELSE s.w)
           /\ t.h = (IF arg % 2 = 1 THEN s.w ELSE s.h)

LEMMA SetterDoes ==
    ASSUME NEW s, IsState(s), NEW call, NEW arg, NEW t, t = Recorder!Setter(s, call, arg)
    PROVE  SetterIs(s, call, arg, t)
<1> USE DEF SetterIs
<1> DEFINE ss == State(s.x, s.y, s.ink, s.size, s.wrap, s.font, s.stroke, s.smooth, s.w, s.h)
<1>s. s = ss
  BY DEF IsState, State
<1>1. CASE call = "setCursor"
  <2>1. t = [s EXCEPT !.x = arg, !.y = 0]
    BY <1>1 DEF Recorder!Setter
  <2>2. t = [ss EXCEPT !.x = arg, !.y = 0]
    BY ONLY <1>s, <2>1, Zenon
  <2> DEFINE halfway == State(arg, s.y, s.ink, s.size, s.wrap, s.font, s.stroke, s.smooth, s.w, s.h)
  <2>a. [ss EXCEPT !.x = arg] = halfway
    BY DEF State
  <2>b. [halfway EXCEPT !.y = 0] = State(arg, 0, s.ink, s.size, s.wrap, s.font, s.stroke, s.smooth, s.w, s.h)
    BY DEF State
  <2> HIDE DEF halfway
  <2>3. [ss EXCEPT !.x = arg, !.y = 0] =
            State(arg, 0, s.ink, s.size, s.wrap, s.font, s.stroke, s.smooth, s.w, s.h)
    BY ONLY <2>a, <2>b, Zenon
  <2>4. t = State(arg, 0, s.ink, s.size, s.wrap, s.font, s.stroke, s.smooth, s.w, s.h)
    BY ONLY <2>2, <2>3, Zenon
  <2> QED BY ONLY <1>1, <2>4, StateFields DEF Retains, FieldNames
<1>2. CASE call = "setTextColor"
  <2>1. t = [s EXCEPT !.ink = arg]
    BY <1>2 DEF Recorder!Setter
  <2>2. t = [ss EXCEPT !.ink = arg]
    BY ONLY <1>s, <2>1, Zenon
  <2>3. [ss EXCEPT !.ink = arg] =
            State(s.x, s.y, arg, s.size, s.wrap, s.font, s.stroke, s.smooth, s.w, s.h)
    BY DEF State
  <2>4. t = State(s.x, s.y, arg, s.size, s.wrap, s.font, s.stroke, s.smooth, s.w, s.h)
    BY ONLY <2>2, <2>3, Zenon
  <2> QED BY ONLY <1>2, <2>4, StateFields DEF Retains, FieldNames
<1>3. CASE call = "setTextSize"
  <2>1. t = [s EXCEPT !.size = IF arg = 0 THEN 1 ELSE arg]
    BY <1>3 DEF Recorder!Setter
  <2>2. t = [ss EXCEPT !.size = IF arg = 0 THEN 1 ELSE arg]
    BY ONLY <1>s, <2>1, Zenon
  <2>3. [ss EXCEPT !.size = IF arg = 0 THEN 1 ELSE arg] =
            State(s.x, s.y, s.ink, (IF arg = 0 THEN 1 ELSE arg), s.wrap, s.font, s.stroke, s.smooth, s.w, s.h)
    BY DEF State
  <2>4. t = State(s.x, s.y, s.ink, (IF arg = 0 THEN 1 ELSE arg), s.wrap, s.font, s.stroke, s.smooth, s.w, s.h)
    BY ONLY <2>2, <2>3, Zenon
  <2> QED BY ONLY <1>3, <2>4, StateFields DEF Retains, FieldNames
<1>4. CASE call = "setTextWrap"
  <2>1. t = [s EXCEPT !.wrap = arg]
    BY <1>4 DEF Recorder!Setter
  <2>2. t = [ss EXCEPT !.wrap = arg]
    BY ONLY <1>s, <2>1, Zenon
  <2>3. [ss EXCEPT !.wrap = arg] =
            State(s.x, s.y, s.ink, s.size, arg, s.font, s.stroke, s.smooth, s.w, s.h)
    BY DEF State
  <2>4. t = State(s.x, s.y, s.ink, s.size, arg, s.font, s.stroke, s.smooth, s.w, s.h)
    BY ONLY <2>2, <2>3, Zenon
  <2> QED BY ONLY <1>4, <2>4, StateFields DEF Retains, FieldNames
<1>5. CASE call = "setFont"
  <2>1. t = [s EXCEPT !.font = arg]
    BY <1>5 DEF Recorder!Setter
  <2>2. t = [ss EXCEPT !.font = arg]
    BY ONLY <1>s, <2>1, Zenon
  <2>3. [ss EXCEPT !.font = arg] =
            State(s.x, s.y, s.ink, s.size, s.wrap, arg, s.stroke, s.smooth, s.w, s.h)
    BY DEF State
  <2>4. t = State(s.x, s.y, s.ink, s.size, s.wrap, arg, s.stroke, s.smooth, s.w, s.h)
    BY ONLY <2>2, <2>3, Zenon
  <2> QED BY ONLY <1>5, <2>4, StateFields DEF Retains, FieldNames
<1>6. CASE call = "setStrokeWidth"
  <2>1. t = [s EXCEPT !.stroke = arg]
    BY <1>6 DEF Recorder!Setter
  <2>2. t = [ss EXCEPT !.stroke = arg]
    BY ONLY <1>s, <2>1, Zenon
  <2>3. [ss EXCEPT !.stroke = arg] =
            State(s.x, s.y, s.ink, s.size, s.wrap, s.font, arg, s.smooth, s.w, s.h)
    BY DEF State
  <2>4. t = State(s.x, s.y, s.ink, s.size, s.wrap, s.font, arg, s.smooth, s.w, s.h)
    BY ONLY <2>2, <2>3, Zenon
  <2> QED BY ONLY <1>6, <2>4, StateFields DEF Retains, FieldNames
<1>7. CASE call = "setAntiAlias"
  <2>1. t = [s EXCEPT !.smooth = arg]
    BY <1>7 DEF Recorder!Setter
  <2>2. t = [ss EXCEPT !.smooth = arg]
    BY ONLY <1>s, <2>1, Zenon
  <2>3. [ss EXCEPT !.smooth = arg] =
            State(s.x, s.y, s.ink, s.size, s.wrap, s.font, s.stroke, arg, s.w, s.h)
    BY DEF State
  <2>4. t = State(s.x, s.y, s.ink, s.size, s.wrap, s.font, s.stroke, arg, s.w, s.h)
    BY ONLY <2>2, <2>3, Zenon
  <2> QED BY ONLY <1>7, <2>4, StateFields DEF Retains, FieldNames
<1>8. CASE call = "setDrawStyle"
  <2>1. t = [s EXCEPT !.stroke = arg[1], !.smooth = arg[2]]
    BY <1>8 DEF Recorder!Setter
  <2>2. t = [ss EXCEPT !.stroke = arg[1], !.smooth = arg[2]]
    BY ONLY <1>s, <2>1, Zenon
  <2> DEFINE halfway == State(s.x, s.y, s.ink, s.size, s.wrap, s.font, arg[1], s.smooth, s.w, s.h)
  <2>a. [ss EXCEPT !.stroke = arg[1]] = halfway
    BY DEF State
  <2>b. [halfway EXCEPT !.smooth = arg[2]] =
            State(s.x, s.y, s.ink, s.size, s.wrap, s.font, arg[1], arg[2], s.w, s.h)
    BY DEF State
  <2> HIDE DEF halfway
  <2>3. [ss EXCEPT !.stroke = arg[1], !.smooth = arg[2]] =
            State(s.x, s.y, s.ink, s.size, s.wrap, s.font, arg[1], arg[2], s.w, s.h)
    BY ONLY <2>a, <2>b, Zenon
  <2>4. t = State(s.x, s.y, s.ink, s.size, s.wrap, s.font, arg[1], arg[2], s.w, s.h)
    BY ONLY <2>2, <2>3, Zenon
  <2> QED BY ONLY <1>8, <2>4, StateFields DEF Retains, FieldNames
<1>9. CASE call = "setRotation"
  <2>1. CASE arg % 2 = 1
    <3>1. t = [s EXCEPT !.w = s.h, !.h = s.w]
      BY <1>9, <2>1 DEF Recorder!Setter
    <3>2. PICK w, h : w = s.h /\ h = s.w
      OBVIOUS
    <3>3. t = [ss EXCEPT !.w = w, !.h = h]
      BY ONLY <1>s, <3>1, <3>2, Zenon
    <3> DEFINE halfway == State(s.x, s.y, s.ink, s.size, s.wrap, s.font, s.stroke, s.smooth, w, s.h)
    <3>a. [ss EXCEPT !.w = w] = halfway
      BY DEF State
    <3>b. [halfway EXCEPT !.h = h] = State(s.x, s.y, s.ink, s.size, s.wrap, s.font, s.stroke, s.smooth, w, h)
      BY DEF State
    <3> HIDE DEF halfway
    <3>4. [ss EXCEPT !.w = w, !.h = h] =
              State(s.x, s.y, s.ink, s.size, s.wrap, s.font, s.stroke, s.smooth, w, h)
      BY ONLY <3>a, <3>b, Zenon
    <3>5. t = State(s.x, s.y, s.ink, s.size, s.wrap, s.font, s.stroke, s.smooth, w, h)
      BY ONLY <3>3, <3>4, Zenon
    <3> QED BY ONLY <1>9, <2>1, <3>2, <3>5, StateFields DEF Retains, FieldNames
  <2>2. CASE arg % 2 # 1
    <3>1. t = s
      BY <1>9, <2>2 DEF Recorder!Setter
    <3> QED BY ONLY <1>9, <2>2, <3>1, IsState(s) DEF Retains, FieldNames
  <2> QED BY <2>1, <2>2
<1>10. CASE call \notin StyleOps \cup TextSetters
  BY <1>10 DEF StyleOps, TextSetters
<1> QED BY <1>1, <1>2, <1>3, <1>4, <1>5, <1>6, <1>7, <1>8, <1>9, <1>10 DEF StyleOps, TextSetters

(* The operations, one by one. *)
Start(s, a) == State(a.x, 0, a.ink, 1, s.wrap, a.font, s.stroke, s.smooth, s.w, s.h)
Screened(a) == IF a = "transparent" THEN << >> ELSE <<<<"screen", a>>>>
Bitmapped(a) == IF a = 0 THEN << >> ELSE <<<<"bitmap", a>>>>
TextTurned(p, a) ==
    IF a.turn = 0 THEN Recorder!Write(p, a.text, 0, <<0, 0>>, 0)
    ELSE Recorder!Write(p, a.text, a.x, <<a.x, 0>>, a.turn)

LEMMA StartIs ==
    ASSUME NEW s, IsState(s), NEW a
    PROVE  [s EXCEPT !.x = a.x, !.y = 0, !.ink = a.ink, !.size = 1, !.font = a.font] = Start(s, a)
<1> DEFINE s0 == State(s.x, s.y, s.ink, s.size, s.wrap, s.font, s.stroke, s.smooth, s.w, s.h)
           s1 == State(a.x, s.y, s.ink, s.size, s.wrap, s.font, s.stroke, s.smooth, s.w, s.h)
           s2 == State(a.x, 0, s.ink, s.size, s.wrap, s.font, s.stroke, s.smooth, s.w, s.h)
           s3 == State(a.x, 0, a.ink, s.size, s.wrap, s.font, s.stroke, s.smooth, s.w, s.h)
           s4 == State(a.x, 0, a.ink, 1, s.wrap, s.font, s.stroke, s.smooth, s.w, s.h)
           s5 == Start(s, a)
<1>1. s = s0
  BY DEF IsState, State
<1>2. [s0 EXCEPT !.x = a.x] = s1
  BY DEF State
<1>3. [s1 EXCEPT !.y = 0] = s2
  BY DEF State
<1>4. [s2 EXCEPT !.ink = a.ink] = s3
  BY DEF State
<1>5. [s3 EXCEPT !.size = 1] = s4
  BY DEF State
<1>6. [s4 EXCEPT !.font = a.font] = s5
  BY DEF State, Start
<1> HIDE DEF s0, s1, s2, s3, s4, s5
<1>7. [s EXCEPT !.x = a.x, !.y = 0, !.ink = a.ink, !.size = 1, !.font = a.font] = s5
  BY ONLY <1>1, <1>2, <1>3, <1>4, <1>5, <1>6, Zenon
<1> QED BY ONLY <1>7 DEF s5

DrawDoes(s, D, call, arg, r) ==
    /\ call = "drawRect" => r = <<s, D \o <<<<"rect", s.stroke, s.smooth>>>>>>
    /\ call = "fillRect" => r = <<s, D \o <<<<"fill", arg>>>>>>
    /\ call = "fillScreen" => r = <<s, D \o Screened(arg)>>
    /\ call = "drawBitmap" => r = <<s, D \o Bitmapped(arg)>>
    /\ call = "writeText" => r = Recorder!Write(<<s, D>>, arg, 0, <<0, 0>>, 0)
    /\ call = "println" => r = <<Recorder!NewLine(s, 0), D>>
    /\ call = "setText" => r = TextTurned(<<Start(s, arg), D>>, arg)
    /\ call \in StyleOps \cup TextSetters => r = <<Recorder!Setter(s, call, arg), D>>

LEMMA DrawIs ==
    ASSUME NEW s, IsState(s), NEW D, IsSeq(D), NEW call, NEW arg
    PROVE  DrawDoes(s, D, call, arg, Recorder!Draw(<<s, D>>, call, arg))
<1> DEFINE r == Recorder!Draw(<<s, D>>, call, arg)
<1> USE DEF DrawDoes
<1>p. PICK p : p = <<s, D>>
  OBVIOUS
<1>q. p[1] = s /\ p[2] = D /\ r = Recorder!Draw(p, call, arg)
  BY <1>p
<1>a. \A e : Append(D, e) = D \o <<e>>
  BY SeqAppend
<1>n. D \o << >> = D
  BY SeqFacts
<1>1. CASE call = "drawRect"
  <2>1. r = <<p[1], Append(p[2], <<"rect", p[1].stroke, p[1].smooth>>)>>
    BY <1>q, <1>1 DEF Recorder!Draw
  <2> QED BY ONLY <1>1, <1>q, <1>a, <2>1 DEF StyleOps, TextSetters
<1>2. CASE call = "fillRect"
  <2>1. r = <<p[1], Append(p[2], <<"fill", arg>>)>>
    BY <1>q, <1>2 DEF Recorder!Draw
  <2> QED BY ONLY <1>2, <1>q, <1>a, <2>1 DEF StyleOps, TextSetters
<1>3. CASE call = "fillScreen"
  <2>1. r = <<p[1], IF arg = "transparent" THEN p[2] ELSE Append(p[2], <<"screen", arg>>)>>
    BY <1>q, <1>3 DEF Recorder!Draw
  <2> QED BY ONLY <1>3, <1>q, <1>a, <1>n, <2>1 DEF StyleOps, TextSetters, Screened
<1>4. CASE call = "drawBitmap"
  <2>1. r = <<p[1], IF arg = 0 THEN p[2] ELSE Append(p[2], <<"bitmap", arg>>)>>
    BY <1>q, <1>4 DEF Recorder!Draw
  <2> QED BY ONLY <1>4, <1>q, <1>a, <1>n, <2>1 DEF StyleOps, TextSetters, Bitmapped
<1>5. CASE call = "writeText"
  <2>1. r = Recorder!Write(p, arg, 0, <<0, 0>>, 0)
    BY <1>q, <1>5 DEF Recorder!Draw, Recorder!WriteText
  <2> QED BY ONLY <1>5, <1>p, <2>1 DEF StyleOps, TextSetters
<1>6. CASE call = "println"
  <2>1. r = <<Recorder!NewLine(p[1], 0), p[2]>>
    BY <1>q, <1>6 DEF Recorder!Draw
  <2> QED BY ONLY <1>6, <1>q, <2>1 DEF StyleOps, TextSetters
<1>7. CASE call = "setText"
  <2>1. r = Recorder!SetText(p, arg)
    BY <1>q, <1>7 DEF Recorder!Draw
  <2>2. Recorder!SetText(p, arg) =
            TextTurned(<<[p[1] EXCEPT !.x = arg.x, !.y = 0, !.ink = arg.ink, !.size = 1, !.font = arg.font], p[2]>>,
                       arg)
    BY Zenon DEF Recorder!SetText, TextTurned, Recorder!WriteText
  <2>3. [s EXCEPT !.x = arg.x, !.y = 0, !.ink = arg.ink, !.size = 1, !.font = arg.font] = Start(s, arg)
    BY StartIs
  <2>4. r = TextTurned(<<Start(s, arg), D>>, arg)
    BY ONLY <1>q, <2>1, <2>2, <2>3, Zenon
  <2> QED BY ONLY <1>7, <2>4 DEF StyleOps, TextSetters
<1>8. CASE call \in StyleOps \cup TextSetters
  <2>1. r = <<Recorder!Setter(p[1], call, arg), p[2]>>
    BY <1>q, <1>8 DEF Recorder!Draw, StyleOps, TextSetters
  <2> QED BY ONLY <1>8, <1>q, <2>1 DEF StyleOps, TextSetters
<1> QED BY ONLY <1>1, <1>2, <1>3, <1>4, <1>5, <1>6, <1>7, <1>8, Zenon

(* What any call does to any state, and what it appends. *)
Shape(call, arg, s, t, n) ==
    /\ IsState(t) /\ IsSeq(n) /\ (s.smooth \in BOOLEAN => t.smooth \in BOOLEAN)
    /\ call # "setRotation" => Retains(s, t, {"w"})
    /\ call \in GeometryOps => t = s /\ \A i \in DOMAIN n : n[i][1] \in {"rect", "fill", "screen"}
    /\ call = "drawBitmap" => t = s /\ \A i \in DOMAIN n : n[i] = <<"bitmap", arg>>
    /\ call \in StyleOps => n = << >>
    /\ call \in TextSetters \cup Writers => Characters(n) /\ Retains(s, t, {"stroke", "smooth", "w"})
Draws(call, arg, s, D, t, n) ==
    /\ Shape(call, arg, s, t, n)
    /\ Recorder!Draw(<<s, D>>, call, arg) = <<t, D \o n>>
    /\ Recorder!Draw(<<s, << >>>>, call, arg) = <<t, n>>

LEMMA SeqEmpty == IsSeq(<< >>) /\ Characters(<< >>) /\ DOMAIN << >> = {}
<1>1. << >> \in Seq({}) /\ DOMAIN << >> = {}
  OBVIOUS
<1> QED BY ONLY <1>1, Zenon DEF Characters, IsSeq

LEMMA SeqOne == ASSUME NEW e PROVE IsSeq(<<e>>) /\ \A i \in DOMAIN <<e>> : <<e>>[i] = e
<1>1. <<e>> \in Seq({e}) /\ \A i \in DOMAIN <<e>> : <<e>>[i] = e
  OBVIOUS
<1> QED BY ONLY <1>1, Zenon DEF IsSeq

(* The marks that are not characters. *)
MarksOf(s, call, arg) ==
    CASE call = "drawRect" -> <<<<"rect", s.stroke, s.smooth>>>>
      [] call = "fillRect" -> <<<<"fill", arg>>>>
      [] call = "fillScreen" -> Screened(arg)
      [] call = "drawBitmap" -> Bitmapped(arg)

LEMMA MarksAre ==
    ASSUME NEW s, NEW call, NEW arg, call \in GeometryOps \cup {"drawBitmap"}, NEW n, n = MarksOf(s, call, arg)
    PROVE  /\ IsSeq(n)
           /\ call \in GeometryOps => \A i \in DOMAIN n : n[i][1] \in {"rect", "fill", "screen"}
           /\ call = "drawBitmap" => \A i \in DOMAIN n : n[i] = <<"bitmap", arg>>
<1>1. ASSUME NEW e, n = <<e>>, call \in GeometryOps => e[1] \in {"rect", "fill", "screen"},
             call = "drawBitmap" => e = <<"bitmap", arg>>
      PROVE  /\ IsSeq(n)
             /\ call \in GeometryOps => \A i \in DOMAIN n : n[i][1] \in {"rect", "fill", "screen"}
             /\ call = "drawBitmap" => \A i \in DOMAIN n : n[i] = <<"bitmap", arg>>
  BY ONLY <1>1, SeqOne, Zenon
<1>2. CASE call = "drawRect"
  <2>1. PICK e : e = <<"rect", s.stroke, s.smooth>>
    OBVIOUS
  <2>2. n = <<e>> /\ e[1] = "rect" /\ call # "drawBitmap"
    BY <2>1, <1>2 DEF MarksOf
  <2> QED BY <2>2, <1>1
<1>3. CASE call = "fillRect"
  <2>1. PICK e : e = <<"fill", arg>>
    OBVIOUS
  <2>2. n = <<e>> /\ e[1] = "fill" /\ call # "drawBitmap"
    BY <2>1, <1>3 DEF MarksOf
  <2> QED BY <2>2, <1>1
<1>4. CASE call = "fillScreen"
  <2>1. PICK e : e = <<"screen", arg>>
    OBVIOUS
  <2>2. (n = <<e>> \/ n = << >>) /\ e[1] = "screen" /\ call # "drawBitmap"
    BY <2>1, <1>4 DEF MarksOf, Screened
  <2> QED BY <2>2, <1>1, SeqEmpty
<1>5. CASE call = "drawBitmap"
  <2>1. PICK e : e = <<"bitmap", arg>>
    OBVIOUS
  <2>2. (n = <<e>> \/ n = << >>) /\ call \notin GeometryOps
    BY <2>1, <1>5 DEF MarksOf, Bitmapped, GeometryOps
  <2> QED BY <2>1, <2>2, <1>1, SeqEmpty
<1> QED BY <1>2, <1>3, <1>4, <1>5 DEF GeometryOps

MarkDrawn(s, D, call, arg) == Recorder!Draw(<<s, D>>, call, arg) = <<s, D \o MarksOf(s, call, arg)>>
LEMMA MarkDraws ==
    ASSUME NEW s, IsState(s), NEW D, IsSeq(D), NEW call, NEW arg, call \in GeometryOps \cup {"drawBitmap"}
    PROVE  MarkDrawn(s, D, call, arg)
<1> DEFINE r == Recorder!Draw(<<s, D>>, call, arg)
<1>1. DrawDoes(s, D, call, arg, r)
  BY DrawIs
<1> HIDE DEF r
<1>2. r = <<s, D \o MarksOf(s, call, arg)>>
  BY <1>1 DEF DrawDoes, MarksOf, GeometryOps
<1> QED BY <1>2 DEF r, MarkDrawn

LEMMA MarkShape ==
    ASSUME NEW s, IsState(s), NEW D, IsSeq(D), NEW call, NEW arg, call \in GeometryOps \cup {"drawBitmap"}
    PROVE  \E t, n : Draws(call, arg, s, D, t, n)
<1>1. PICK n : n = MarksOf(s, call, arg)
  OBVIOUS
<1>2. /\ IsSeq(n)
      /\ call \in GeometryOps => \A i \in DOMAIN n : n[i][1] \in {"rect", "fill", "screen"}
      /\ call = "drawBitmap" => \A i \in DOMAIN n : n[i] = <<"bitmap", arg>>
  BY <1>1, MarksAre
<1>3. Recorder!Draw(<<s, D>>, call, arg) = <<s, D \o n>>
  <2>1. MarkDrawn(s, D, call, arg)
    BY MarkDraws
  <2> QED BY ONLY <1>1, <2>1, Zenon DEF MarkDrawn
<1>4. Recorder!Draw(<<s, << >>>>, call, arg) = <<s, << >> \o n>> /\ << >> \o n = n
  <2>1. MarkDrawn(s, << >>, call, arg)
    BY MarkDraws, SeqEmpty
  <2>2. << >> \o n = n
    BY ONLY <1>2, SeqFacts
  <2> QED BY ONLY <1>1, <2>1, <2>2, Zenon DEF MarkDrawn
<1>5. call \notin StyleOps /\ call \notin TextSetters \cup Writers
  BY DEF GeometryOps, StyleOps, TextSetters, Writers
<1>6. Shape(call, arg, s, s, n)
  BY ONLY <1>2, <1>5, IsState(s) DEF Shape, Retains
<1> QED BY ONLY <1>3, <1>4, <1>6, Zenon DEF Draws

(* The setters. *)
LEMMA SetterShape ==
    ASSUME NEW s, IsState(s), NEW D, IsSeq(D), NEW call, NEW arg, Proper(call, arg), call \in StyleOps \cup TextSetters
    PROVE  \E t, n : Draws(call, arg, s, D, t, n)
<1>1. PICK t : t = Recorder!Setter(s, call, arg)
  OBVIOUS
<1>2. Shape(call, arg, s, t, << >>)
  <2>1. call \notin GeometryOps /\ call # "drawBitmap" /\ call \notin Writers
    BY DEF GeometryOps, StyleOps, TextSetters, Writers
  <2>2. /\ IsState(t) /\ (s.smooth \in BOOLEAN => t.smooth \in BOOLEAN)
        /\ call # "setRotation" => Retains(s, t, {"w"})
        /\ call \in TextSetters => Retains(s, t, {"stroke", "smooth", "w"})
    <3>1. SetterIs(s, call, arg, t)
      BY <1>1, SetterDoes
    <3>2. CASE call \in TextSetters
      BY ONLY <3>1, <3>2 DEF SetterIs, Retains, FieldNames, TextSetters
    <3>3. CASE call \in StyleOps
      BY ONLY <3>1, <3>3, Proper(call, arg) DEF SetterIs, Retains, FieldNames, StyleOps, TextSetters, Proper
    <3> QED BY ONLY <3>2, <3>3, call \in StyleOps \cup TextSetters
  <2> QED BY ONLY <2>1, <2>2, SeqEmpty DEF Shape
<1>3. Recorder!Draw(<<s, D>>, call, arg) = <<t, D>>
  <2>1. DrawDoes(s, D, call, arg, Recorder!Draw(<<s, D>>, call, arg))
    BY DrawIs
  <2> QED BY ONLY <1>1, <2>1, call \in StyleOps \cup TextSetters, Zenon DEF DrawDoes
<1>4. Recorder!Draw(<<s, << >>>>, call, arg) = <<t, << >>>>
  <2>1. DrawDoes(s, << >>, call, arg, Recorder!Draw(<<s, << >>>>, call, arg))
    BY SeqEmpty, DrawIs
  <2> QED BY ONLY <1>1, <2>1, call \in StyleOps \cup TextSetters, Zenon DEF DrawDoes
<1>5. D \o << >> = D
  BY SeqFacts
<1> QED BY ONLY <1>2, <1>3, <1>4, <1>5, Zenon DEF Draws

(* The writers, from two states. *)
LEMMA WriteTextPair ==
    ASSUME NEW s, NEW u, IsState(s), IsState(u), TextSame(s, u), s.x = u.x, s.y = u.y,
           NEW D, NEW V, IsSeq(D), IsSeq(V), NEW arg, IsSeq(arg)
    PROVE  WroteAlike(Recorder!Draw(<<s, D>>, "writeText", arg), Recorder!Draw(<<u, V>>, "writeText", arg), s, u, D, V)
<1>1. DrawDoes(s, D, "writeText", arg, Recorder!Draw(<<s, D>>, "writeText", arg))
  BY DrawIs
<1>2. DrawDoes(u, V, "writeText", arg, Recorder!Draw(<<u, V>>, "writeText", arg))
  BY DrawIs
<1>3. WroteAlike(Recorder!Write(<<s, D>>, arg, 0, <<0, 0>>, 0), Recorder!Write(<<u, V>>, arg, 0, <<0, 0>>, 0), s, u, D, V)
  BY WriteAlike
<1> QED BY ONLY <1>1, <1>2, <1>3, Zenon DEF DrawDoes

LEMMA StartFields ==
    ASSUME NEW s, NEW a, NEW t, t = Start(s, a)
    PROVE  /\ IsState(t) /\ Retains(s, t, {"wrap", "stroke", "smooth", "w"})
           /\ t.x = a.x /\ t.y = 0 /\ t.ink = a.ink /\ t.size = 1 /\ t.font = a.font
  BY StateFields DEF Start, Retains

LEMMA SetTextPair ==
    ASSUME NEW s, NEW u, IsState(s), IsState(u), s.wrap = u.wrap, s.w = u.w,
           NEW D, NEW V, IsSeq(D), IsSeq(V), NEW arg, IsSeq(arg.text)
    PROVE  WroteAlike(Recorder!Draw(<<s, D>>, "setText", arg), Recorder!Draw(<<u, V>>, "setText", arg),
                      Start(s, arg), Start(u, arg), D, V)
<1>1. DrawDoes(s, D, "setText", arg, Recorder!Draw(<<s, D>>, "setText", arg))
  BY DrawIs
<1>2. DrawDoes(u, V, "setText", arg, Recorder!Draw(<<u, V>>, "setText", arg))
  BY DrawIs
<1>3. PICK a, b : a = Start(s, arg) /\ b = Start(u, arg)
  OBVIOUS
<1>4. /\ IsState(a) /\ Retains(s, a, {"wrap", "stroke", "smooth", "w"})
      /\ a.x = arg.x /\ a.y = 0 /\ a.ink = arg.ink /\ a.size = 1 /\ a.font = arg.font
  BY ONLY <1>3, StartFields
<1>5. /\ IsState(b) /\ Retains(u, b, {"wrap", "stroke", "smooth", "w"})
      /\ b.x = arg.x /\ b.y = 0 /\ b.ink = arg.ink /\ b.size = 1 /\ b.font = arg.font
  BY ONLY <1>3, StartFields
<1>6. TextSame(a, b) /\ a.x = b.x /\ a.y = b.y /\ IsState(a) /\ IsState(b)
  BY ONLY <1>4, <1>5, s.wrap = u.wrap, s.w = u.w DEF TextSame, Retains
<1>7. WroteAlike(Recorder!Write(<<a, D>>, arg.text, 0, <<0, 0>>, 0),
                 Recorder!Write(<<b, V>>, arg.text, 0, <<0, 0>>, 0), a, b, D, V)
  BY ONLY <1>6, IsSeq(D), IsSeq(V), IsSeq(arg.text), WriteAlike
<1>8. WroteAlike(Recorder!Write(<<a, D>>, arg.text, arg.x, <<arg.x, 0>>, arg.turn),
                 Recorder!Write(<<b, V>>, arg.text, arg.x, <<arg.x, 0>>, arg.turn), a, b, D, V)
  BY ONLY <1>6, IsSeq(D), IsSeq(V), IsSeq(arg.text), WriteAlike
<1>9. WroteAlike(TextTurned(<<a, D>>, arg), TextTurned(<<b, V>>, arg), a, b, D, V)
  BY ONLY <1>7, <1>8, Zenon DEF TextTurned
<1> QED BY ONLY <1>1, <1>2, <1>3, <1>9, Zenon DEF DrawDoes

(* What was written on a picture, and from nothing. *)
WroteFrom(p, q, s, D) ==
    \E t, n : /\ p = <<t, D \o n>> /\ q = <<t, n>> /\ Characters(n) /\ IsState(t)
              /\ Retains(s, t, {"stroke", "smooth", "w"})

LEMMA WrittenShape ==
    ASSUME NEW p, NEW q, NEW s, NEW D, WroteAlike(p, q, s, s, D, << >>)
    PROVE  WroteFrom(p, q, s, D)
<1>1. PICK n, x, y : Characters(n) /\ p = <<Put(s, x, y), D \o n>> /\ q = <<Put(s, x, y), << >> \o n>>
  BY Zenon DEF WroteAlike
<1>2. << >> \o n = n
  BY <1>1, SeqFacts DEF Characters
<1>3. PICK t : t = Put(s, x, y)
  OBVIOUS
<1>4. IsState(t) /\ Retains(s, t, {"stroke", "smooth", "w"})
  BY ONLY <1>3, PutFields DEF Retains
<1> QED BY ONLY <1>1, <1>2, <1>3, <1>4, Zenon DEF WroteFrom

LEMMA WriterShape ==
    ASSUME NEW s, IsState(s), NEW D, IsSeq(D), NEW call, NEW arg, Proper(call, arg), call \in Writers
    PROVE  \E t, n : Draws(call, arg, s, D, t, n)
<1> DEFINE p == Recorder!Draw(<<s, D>>, call, arg)
           q == Recorder!Draw(<<s, << >>>>, call, arg)
<1>1. TextSame(s, s) /\ IsSeq(<< >>)
  BY SeqEmpty DEF TextSame
<1>2. PICK r : /\ Retains(s, r, {"stroke", "smooth", "w"})
               /\ WroteFrom(p, q, r, D)
  <2>1. CASE call = "writeText"
    <3>1. WroteAlike(p, q, s, s, D, << >>)
      BY ONLY <2>1, <1>1, WriteTextPair, Proper(call, arg), IsState(s), IsSeq(D) DEF Proper
    <3>2. Retains(s, s, {"stroke", "smooth", "w"})
      BY DEF Retains
    <3>3. WroteFrom(p, q, s, D)
      BY <3>1, WrittenShape
    <3> QED BY ONLY <3>2, <3>3, Zenon
  <2>2. CASE call = "setText"
    <3>1. PICK r : r = Start(s, arg)
      OBVIOUS
    <3>2. WroteAlike(p, q, r, r, D, << >>)
      BY ONLY <2>2, <1>1, <3>1, SetTextPair, Proper(call, arg), IsState(s), IsSeq(D) DEF Proper
    <3>3. Retains(s, r, {"stroke", "smooth", "w"})
      BY <3>1, StartFields DEF Retains
    <3>4. WroteFrom(p, q, r, D)
      BY <3>2, WrittenShape
    <3> QED BY ONLY <3>3, <3>4, Zenon
  <2>3. CASE call = "println"
    <3>1. DrawDoes(s, D, call, arg, p) /\ DrawDoes(s, << >>, call, arg, q)
      BY <1>1, DrawIs
    <3>2. PICK t : t = Recorder!NewLine(s, 0)
      OBVIOUS
    <3>3. IsState(t) /\ Retains(s, t, {"stroke", "smooth", "w"})
      BY <3>2, NewLineIs, PutFields DEF Retains
    <3>4. p = <<t, D>> /\ q = <<t, << >>>>
      BY ONLY <2>3, <3>1, <3>2, Zenon DEF DrawDoes
    <3>5. D \o << >> = D /\ Retains(s, s, {"stroke", "smooth", "w"})
      BY SeqFacts DEF Retains
    <3> QED BY <3>3, <3>4, <3>5, SeqEmpty, Zenon DEF WroteFrom
  <2> QED BY <2>1, <2>2, <2>3 DEF Writers
<1>3. PICK t, n : /\ p = <<t, D \o n>> /\ q = <<t, n>> /\ Characters(n) /\ IsState(t)
                  /\ Retains(r, t, {"stroke", "smooth", "w"})
  BY <1>2, Zenon DEF WroteFrom
<1>4. Shape(call, arg, s, t, n)
  <2>1. Retains(s, t, {"stroke", "smooth", "w"}) /\ IsSeq(n)
    BY <1>2, <1>3 DEF Retains, Characters
  <2>2. Retains(s, t, {"w"}) /\ (s.smooth \in BOOLEAN => t.smooth \in BOOLEAN)
    BY ONLY <2>1 DEF Retains
  <2>3. call \notin GeometryOps /\ call # "drawBitmap" /\ call \notin StyleOps
    BY DEF Writers, GeometryOps, StyleOps
  <2> QED BY ONLY <1>3, <2>1, <2>2, <2>3 DEF Shape
<1> QED BY ONLY <1>3, <1>4, Zenon DEF Draws, p, q

LEMMA DrawShape ==
    ASSUME NEW s, IsState(s), NEW D, IsSeq(D), NEW call, NEW arg, Proper(call, arg)
    PROVE  \E t, n : Draws(call, arg, s, D, t, n)
<1>1. call \in GeometryOps \cup {"drawBitmap"} \/ call \in StyleOps \cup TextSetters \/ call \in Writers
  BY DEF Proper
<1> QED BY <1>1, MarkShape, SetterShape, WriterShape

-----------------------------------------------------------------------------
(* What the viewer is told of a call, and what it does then *)

Lettered(a, f) == [x |-> a.x, ink |-> a.ink, font |-> f, turn |-> a.turn, text |-> a.text]
ToldCall(call) ==
    CASE call = "println" -> "writeText"
      [] call \in {"setStrokeWidth", "setAntiAlias"} -> "setDrawStyle"
      [] OTHER -> call
ToldArg(call, arg) ==
    CASE call = "println" -> <<"newline">>
      [] call = "setFont" -> Recorder!FontOf(Recorder!FontId(arg))
      [] call = "setText" -> Lettered(arg, Recorder!FontOf(Recorder!FontId(arg.font)))
      [] call \in {"setStrokeWidth", "setAntiAlias", "setDrawStyle"} -> Recorder!StyleWith(call, arg)
      [] OTHER -> arg

PlayDoes(p, k, a, r) ==
    /\ k \in GeometryOps \cup {"drawBitmap", "setRotation", "setCursor", "setTextColor", "setTextSize", "writeText"} =>
           r = Recorder!Draw(p, k, a)
    /\ k = "setDrawStyle" => r = Recorder!Draw(p, k, <<a[1], a[2] # 0>>)
    /\ k = "setTextWrap" => r = Recorder!Draw(p, k, a # 0)
    /\ k = "setFont" => r = Recorder!Draw(p, k, Recorder!FontOf(a))
    /\ k = "setText" => r = Recorder!Draw(p, k, [a EXCEPT !.font = Recorder!FontOf(a.font)])

LEMMA PlayIs == ASSUME NEW p, NEW k, NEW a PROVE PlayDoes(p, k, a, Recorder!Play(p, <<k, a>>))
<1>0. PICK c : c = <<k, a>>
  OBVIOUS
<1>1. c = <<k, a>> /\ c[1] = k /\ c[2] = a
  BY <1>0
<1>2. PICK r : r = Recorder!Play(p, c)
  OBVIOUS
<1>3. k \in GeometryOps => r = Recorder!Draw(p, k, a)
  BY <1>1, <1>2 DEF Recorder!Play, Recorder!PlayGeometry, Recorder!Family, GeometryOps
<1>4. k = "drawBitmap" => r = Recorder!Draw(p, k, a)
  BY <1>1, <1>2 DEF Recorder!Play, Recorder!PlayBitmap, Recorder!Family
<1>5. k = "setRotation" => r = Recorder!Draw(p, k, a)
  BY <1>1, <1>2 DEF Recorder!Play, Recorder!PlayStyle, Recorder!Family
<1>6. k = "setDrawStyle" => r = Recorder!Draw(p, k, <<a[1], a[2] # 0>>)
  BY <1>1, <1>2 DEF Recorder!Play, Recorder!PlayStyle, Recorder!Family
<1>7. k \in {"setCursor", "setTextColor", "setTextSize", "writeText"} => r = Recorder!Draw(p, k, a)
  BY <1>1, <1>2 DEF Recorder!Play, Recorder!PlayText, Recorder!Family
<1>8. k = "setTextWrap" => r = Recorder!Draw(p, k, a # 0)
  BY <1>1, <1>2 DEF Recorder!Play, Recorder!PlayText, Recorder!Family
<1>9. k = "setFont" => r = Recorder!Draw(p, k, Recorder!FontOf(a))
  BY <1>1, <1>2 DEF Recorder!Play, Recorder!PlayText, Recorder!Family
<1>10. k = "setText" => r = Recorder!Draw(p, k, [a EXCEPT !.font = Recorder!FontOf(a.font)])
  BY <1>1, <1>2 DEF Recorder!Play, Recorder!PlayText, Recorder!Family
<1>11. r = Recorder!Play(p, <<k, a>>)
  BY ONLY <1>1, <1>2, Zenon
<1>12. PlayDoes(p, k, a, r)
  BY ONLY <1>3, <1>4, <1>5, <1>6, <1>7, <1>8, <1>9, <1>10, Zenon DEF PlayDoes
<1> QED BY ONLY <1>11, <1>12, Zenon

(* The commands of a call. *)
Sent(call, arg) ==
    CASE call = "drawBitmap" -> IF arg = 0 THEN << >> ELSE <<<<"drawBitmap", arg>>>>
      [] call \in {"setStrokeWidth", "setAntiAlias", "setDrawStyle"} ->
             <<<<"setDrawStyle", <<Recorder!StyleWith(call, arg)[1], Recorder!Byte(Recorder!StyleWith(call, arg)[2])>>>>>>
      [] call = "setTextWrap" -> <<<<call, Recorder!Byte(arg)>>>>
      [] call = "setFont" -> <<<<call, Recorder!FontId(arg)>>>>
      [] call = "setText" -> <<<<call, [arg EXCEPT !.font = Recorder!FontId(arg.font)]>>>>
      [] call = "println" -> <<<<"writeText", <<"newline">>>>>>
      [] call = "writeText" -> IF arg = << >> THEN << >> ELSE <<<<call, arg>>>>
      [] OTHER -> <<<<call, arg>>>>

LEMMA EncodeIs ==
    ASSUME NEW call, NEW arg, Proper(call, arg)
    PROVE  Recorder!Encode(call, arg) =
               IF Recorder!Allow(Recorder!Family(call), arg) THEN Sent(call, arg) ELSE << >>
<1>1. CASE ~Recorder!Allow(Recorder!Family(call), arg)
  BY <1>1, Zenon DEF Recorder!Encode
<1>2. CASE Recorder!Allow(Recorder!Family(call), arg)
  <2>1. CASE call \in GeometryOps
    <3>1. Recorder!Family(call) = "geometry"
      BY <2>1, FamilyIs
    <3>2. Recorder!Encode(call, arg) = Recorder!RecordGeometry(call, arg)
      BY ONLY <1>2, <3>1 DEF Recorder!Encode
    <3> QED BY ONLY <1>2, <2>1, <3>2 DEF Recorder!RecordGeometry, Sent, GeometryOps
  <2>2. CASE call = "drawBitmap"
    <3>1. Recorder!Family(call) = "bitmap"
      BY <2>2, FamilyIs
    <3>2. Recorder!Encode(call, arg) = Recorder!RecordBitmap(arg)
      BY ONLY <1>2, <3>1 DEF Recorder!Encode
    <3> QED BY ONLY <1>2, <2>2, <3>2 DEF Recorder!RecordBitmap, Sent
  <2>3. CASE call \in StyleOps
    <3>1. Recorder!Family(call) = "style"
      BY <2>3, FamilyIs
    <3>2. Recorder!Encode(call, arg) = Recorder!RecordStyle(call, arg)
      BY ONLY <1>2, <3>1 DEF Recorder!Encode
    <3> QED BY ONLY <1>2, <2>3, <3>2 DEF Recorder!RecordStyle, Recorder!StyleBytes, Sent, StyleOps
  <2>4. CASE call \in TextSetters \cup Writers
    <3>1. Recorder!Family(call) = "text"
      BY <2>4, FamilyIs
    <3>2. Recorder!Encode(call, arg) = Recorder!RecordText(call, arg)
      BY ONLY <1>2, <3>1 DEF Recorder!Encode
    <3>3. Recorder!RecordText(call, arg) = Sent(call, arg)
      BY ONLY <2>4 DEF Recorder!RecordText, Sent, TextSetters, Writers
    <3> QED BY ONLY <1>2, <3>2, <3>3
  <2> QED BY <2>1, <2>2, <2>3, <2>4 DEF Proper
<1> QED BY <1>1, <1>2

LEMMA FoldOne ==
    ASSUME NEW p, NEW c PROVE Playing!Fold(p, <<c>>) = Recorder!Play(p, c) /\ Playing!Fold(p, << >>) = p
<1>1. << >> \in Seq({c}) /\ c \in {c} /\ Append(<< >>, c) = <<c>>
  OBVIOUS
<1>2. Playing!Fold(p, Append(<< >>, c)) = Play(Playing!Fold(p, << >>), c)
  BY ONLY <1>1, Playing!FoldAppend
<1>3. Playing!Fold(p, << >>) = p
  BY Playing!FoldNone
<1> QED BY ONLY <1>1, <1>2, <1>3, Zenon DEF Play

(* A text of no characters. *)
LEMMA NothingWritten ==
    ASSUME NEW s, IsState(s), NEW D, IsSeq(D)
    PROVE  Recorder!Draw(<<s, D>>, "writeText", << >>) = <<s, D>>
<1>1. DrawDoes(s, D, "writeText", << >>, Recorder!Draw(<<s, D>>, "writeText", << >>))
  BY DrawIs
<1> DEFINE st == [left |-> 0, origin |-> <<0, 0>>, turn |-> 0]
<1>2. Writing!Fold(<<<<s, D>>, st>>, << >>) = <<<<s, D>>, st>>
  BY Writing!FoldNone
<1>3. <<<<s, D>>, st>>[1] = <<s, D>>
  OBVIOUS
<1>4. Recorder!Write(<<s, D>>, << >>, 0, <<0, 0>>, 0) = Writing!Fold(<<<<s, D>>, st>>, << >>)[1]
  BY WriteIsFold, Zenon
<1> HIDE DEF st
<1>5. Recorder!Write(<<s, D>>, << >>, 0, <<0, 0>>, 0) = <<s, D>>
  BY ONLY <1>2, <1>3, <1>4, Zenon
<1> QED BY ONLY <1>1, <1>5, Zenon DEF DrawDoes

(* A newline. *)
LEMMA NewlineWritten ==
    ASSUME NEW s, IsState(s), NEW D, IsSeq(D)
    PROVE  Recorder!Draw(<<s, D>>, "writeText", <<"newline">>) = <<Recorder!NewLine(s, 0), D>>
<1>1. DrawDoes(s, D, "writeText", <<"newline">>, Recorder!Draw(<<s, D>>, "writeText", <<"newline">>))
  BY DrawIs
<1> DEFINE st == [left |-> 0, origin |-> <<0, 0>>, turn |-> 0]
<1>2. << >> \in Seq({"newline"}) /\ "newline" \in {"newline"} /\ Append(<< >>, "newline") = <<"newline">>
  OBVIOUS
<1>3. Writing!Fold(<<<<s, D>>, st>>, Append(<< >>, "newline")) =
          Glyph(Writing!Fold(<<<<s, D>>, st>>, << >>), "newline")
  BY ONLY <1>2, Writing!FoldAppend
<1>4. Writing!Fold(<<<<s, D>>, st>>, << >>) = <<<<s, D>>, st>>
  BY Writing!FoldNone
<1>5. Glyph(<<<<s, D>>, st>>, "newline")[1] = Recorder!Char(<<s, D>>, "newline", 0, <<0, 0>>, 0)
  BY DEF Glyph, Recorder!Glyph
<1>6. Recorder!Char(<<s, D>>, "newline", 0, <<0, 0>>, 0) = <<Recorder!NewLine(s, 0), D>>
  BY DEF Recorder!Char
<1>7. Recorder!Write(<<s, D>>, <<"newline">>, 0, <<0, 0>>, 0) = Writing!Fold(<<<<s, D>>, st>>, <<"newline">>)[1]
  BY WriteIsFold, Zenon
<1> HIDE DEF st
<1>8. Recorder!Write(<<s, D>>, <<"newline">>, 0, <<0, 0>>, 0) = <<Recorder!NewLine(s, 0), D>>
  BY ONLY <1>2, <1>3, <1>4, <1>5, <1>6, <1>7, Zenon
<1> QED BY ONLY <1>1, <1>8, Zenon DEF DrawDoes

(* The commands of an allowed call do what ToldDraw says. *)
ToldDraw(p, call, arg) == Recorder!Draw(p, ToldCall(call), ToldArg(call, arg))
SentIsTold(p, call, arg) == Playing!Fold(p, Sent(call, arg)) = ToldDraw(p, call, arg)

LEMMA SentTold ==
    ASSUME NEW s, IsState(s), NEW D, IsSeq(D), NEW call, NEW arg, Proper(call, arg), rec.smooth \in BOOLEAN
    PROVE  SentIsTold(<<s, D>>, call, arg)
<1>p. PICK p : p = <<s, D>>
  OBVIOUS
<1>o. ASSUME NEW k, NEW a, Sent(call, arg) = <<<<k, a>>>>
      PROVE  PlayDoes(p, k, a, Playing!Fold(p, Sent(call, arg)))
  <2>1. Playing!Fold(p, <<<<k, a>>>>) = Recorder!Play(p, <<k, a>>)
    BY FoldOne
  <2>2. PlayDoes(p, k, a, Recorder!Play(p, <<k, a>>))
    BY PlayIs
  <2> QED BY ONLY <1>o, <2>1, <2>2, Zenon
<1> DEFINE r == Playing!Fold(p, Sent(call, arg))
<1>1. CASE call \in GeometryOps \cup {"setRotation", "setCursor", "setTextColor", "setTextSize"}
  <2>1. Sent(call, arg) = <<<<call, arg>>>> /\ ToldCall(call) = call /\ ToldArg(call, arg) = arg
    BY ONLY <1>1 DEF Sent, ToldCall, ToldArg, GeometryOps
  <2>2. PlayDoes(p, call, arg, r)
    BY <2>1, <1>o
  <2>3. r = Recorder!Draw(p, call, arg)
    BY ONLY <1>1, <2>2 DEF PlayDoes
  <2> QED BY ONLY <2>1, <2>3, <1>p, Zenon DEF SentIsTold, ToldDraw
<1>2. CASE call = "drawBitmap"
  <2>1. ToldCall(call) = call /\ ToldArg(call, arg) = arg
    BY ONLY <1>2 DEF ToldCall, ToldArg
  <2>2. CASE arg = 0
    <3>1. Sent(call, arg) = << >>
      BY ONLY <1>2, <2>2 DEF Sent
    <3>2. r = p
      BY <3>1, FoldOne
    <3>3. DrawDoes(s, D, call, arg, Recorder!Draw(<<s, D>>, call, arg))
      BY DrawIs
    <3>4. D \o << >> = D
      BY SeqFacts
    <3>5. Bitmapped(arg) = << >>
      BY <2>2 DEF Bitmapped
    <3>6. Recorder!Draw(p, call, arg) = p
      BY ONLY <1>p, <1>2, <3>3, <3>4, <3>5, Zenon DEF DrawDoes
    <3> QED BY ONLY <2>1, <3>2, <3>6, <1>p, Zenon DEF SentIsTold, ToldDraw
  <2>3. CASE arg # 0
    <3>1. Sent(call, arg) = <<<<call, arg>>>>
      BY ONLY <1>2, <2>3 DEF Sent
    <3>2. PlayDoes(p, call, arg, r)
      BY <3>1, <1>o
    <3>3. r = Recorder!Draw(p, call, arg)
      BY ONLY <1>2, <3>2 DEF PlayDoes
    <3> QED BY ONLY <2>1, <3>3, <1>p, Zenon DEF SentIsTold, ToldDraw
  <2> QED BY <2>2, <2>3
<1>3. CASE call = "writeText"
  <2>1. ToldCall(call) = call /\ ToldArg(call, arg) = arg
    BY ONLY <1>3 DEF ToldCall, ToldArg
  <2>2. CASE arg = << >>
    <3>1. Sent(call, arg) = << >>
      BY ONLY <1>3, <2>2 DEF Sent
    <3>2. r = p
      BY <3>1, FoldOne
    <3>3. Recorder!Draw(<<s, D>>, "writeText", << >>) = <<s, D>>
      BY NothingWritten
    <3> QED BY ONLY <1>3, <2>1, <2>2, <3>2, <3>3, <1>p, Zenon DEF SentIsTold, ToldDraw
  <2>3. CASE arg # << >>
    <3>1. Sent(call, arg) = <<<<call, arg>>>>
      BY ONLY <1>3, <2>3, Zenon DEF Sent
    <3>2. PlayDoes(p, call, arg, r)
      BY <3>1, <1>o
    <3>3. r = Recorder!Draw(p, call, arg)
      BY ONLY <1>3, <3>2 DEF PlayDoes
    <3> QED BY ONLY <2>1, <3>3, <1>p, Zenon DEF SentIsTold, ToldDraw
  <2> QED BY <2>2, <2>3
<1>4. CASE call = "println"
  <2>1. Sent(call, arg) = <<<<"writeText", <<"newline">>>>>> /\ ToldCall(call) = "writeText"
        /\ ToldArg(call, arg) = <<"newline">>
    BY ONLY <1>4 DEF Sent, ToldCall, ToldArg
  <2>2. PlayDoes(p, "writeText", <<"newline">>, r)
    BY <2>1, <1>o
  <2>3. r = Recorder!Draw(p, "writeText", <<"newline">>)
    BY ONLY <2>2 DEF PlayDoes
  <2> QED BY ONLY <2>1, <2>3, <1>p, Zenon DEF SentIsTold, ToldDraw
<1>5. CASE call = "setTextWrap"
  <2>1. Sent(call, arg) = <<<<call, Recorder!Byte(arg)>>>> /\ ToldCall(call) = call /\ ToldArg(call, arg) = arg
    BY ONLY <1>5 DEF Sent, ToldCall, ToldArg
  <2>2. PlayDoes(p, call, Recorder!Byte(arg), r)
    BY <2>1, <1>o
  <2>3. r = Recorder!Draw(p, call, Recorder!Byte(arg) # 0)
    BY ONLY <1>5, <2>2, Zenon DEF PlayDoes
  <2>4. (Recorder!Byte(arg) # 0) = arg
    BY <1>5 DEF Recorder!Byte, Proper
  <2>5. r = Recorder!Draw(p, call, arg)
    BY ONLY <2>3, <2>4, Zenon
  <2> QED BY ONLY <2>1, <2>5, <1>p, Zenon DEF SentIsTold, ToldDraw
<1>6. CASE call = "setFont"
  <2>1. Sent(call, arg) = <<<<call, Recorder!FontId(arg)>>>> /\ ToldCall(call) = call
        /\ ToldArg(call, arg) = Recorder!FontOf(Recorder!FontId(arg))
    BY ONLY <1>6 DEF Sent, ToldCall, ToldArg
  <2>2. PlayDoes(p, call, Recorder!FontId(arg), r)
    BY <2>1, <1>o
  <2>3. r = Recorder!Draw(p, call, Recorder!FontOf(Recorder!FontId(arg)))
    BY ONLY <1>6, <2>2 DEF PlayDoes
  <2> QED BY ONLY <2>1, <2>3, <1>p, Zenon DEF SentIsTold, ToldDraw
<1>7. CASE call = "setText"
  <2>1. PICK g : g = Recorder!FontId(arg.font)
    OBVIOUS
  <2>2. arg = Lettered(arg, arg.font)
    BY <1>7 DEF Proper, Lettered
  <2>3. PICK l : l = Lettered(arg, g)
    OBVIOUS
  <2>4. [Lettered(arg, arg.font) EXCEPT !.font = g] = l
    BY <2>3 DEF Lettered
  <2>5. Sent(call, arg) = <<<<call, [arg EXCEPT !.font = g]>>>> /\ ToldCall(call) = call
        /\ ToldArg(call, arg) = Lettered(arg, Recorder!FontOf(g))
    BY ONLY <1>7, <2>1, Zenon DEF Sent, ToldCall, ToldArg
  <2>6. Sent(call, arg) = <<<<call, l>>>>
    BY ONLY <2>2, <2>4, <2>5, Zenon
  <2>7. PlayDoes(p, call, l, r)
    BY <2>6, <1>o
  <2>8. r = Recorder!Draw(p, call, [l EXCEPT !.font = Recorder!FontOf(l.font)])
    BY ONLY <1>7, <2>7, Zenon DEF PlayDoes
  <2>9. l.font = g
    BY <2>3 DEF Lettered
  <2>10. PICK h : h = Recorder!FontOf(g)
    OBVIOUS
  <2>11. [Lettered(arg, g) EXCEPT !.font = h] = Lettered(arg, h)
    BY DEF Lettered
  <2>12. r = Recorder!Draw(p, call, Lettered(arg, h))
    BY ONLY <2>3, <2>8, <2>9, <2>10, <2>11, Zenon
  <2> QED BY ONLY <2>5, <2>10, <2>12, <1>p, Zenon DEF SentIsTold, ToldDraw
<1>8. CASE call \in {"setStrokeWidth", "setAntiAlias", "setDrawStyle"}
  <2>1. PICK w : w = Recorder!StyleWith(call, arg)
    OBVIOUS
  <2>2. w = <<w[1], w[2]>> /\ w[2] \in BOOLEAN
    BY <1>8, <2>1 DEF Recorder!StyleWith, Proper
  <2>3. Sent(call, arg) = <<<<"setDrawStyle", <<w[1], Recorder!Byte(w[2])>>>>>>
        /\ ToldCall(call) = "setDrawStyle" /\ ToldArg(call, arg) = w
    BY ONLY <1>8, <2>1 DEF Sent, ToldCall, ToldArg
  <2>4. PICK a : a = <<w[1], Recorder!Byte(w[2])>>
    OBVIOUS
  <2>5. PlayDoes(p, "setDrawStyle", a, r)
    BY <2>3, <2>4, <1>o
  <2>6. r = Recorder!Draw(p, "setDrawStyle", <<a[1], a[2] # 0>>)
    BY ONLY <2>5, Zenon DEF PlayDoes
  <2>7. a[1] = w[1] /\ (a[2] # 0) = w[2]
    BY <2>2, <2>4 DEF Recorder!Byte
  <2>8. r = Recorder!Draw(p, "setDrawStyle", w)
    BY ONLY <2>2, <2>6, <2>7, Zenon
  <2> QED BY ONLY <2>3, <2>8, <1>p, Zenon DEF SentIsTold, ToldDraw
<1> QED BY <1>1, <1>2, <1>3, <1>4, <1>5, <1>6, <1>7, <1>8 DEF Proper, GeometryOps, StyleOps, TextSetters, Writers

(* What the viewer is told is a call like the others. *)
LEMMA ToldProper ==
    ASSUME NEW call, NEW arg, Proper(call, arg), rec.smooth \in BOOLEAN
    PROVE  Proper(ToldCall(call), ToldArg(call, arg))
<1>1. CASE call = "println"
  <2>1. ToldCall(call) = "writeText" /\ ToldArg(call, arg) = <<"newline">>
    BY ONLY <1>1 DEF ToldCall, ToldArg
  <2>2. IsSeq(<<"newline">>)
    BY SeqOne
  <2> QED BY ONLY <2>1, <2>2 DEF Proper, Writers
<1>2. CASE call \in {"setStrokeWidth", "setAntiAlias", "setDrawStyle"}
  <2>1. PICK w : w = Recorder!StyleWith(call, arg)
    OBVIOUS
  <2>2. w = <<w[1], w[2]>> /\ w[2] \in BOOLEAN
    BY <1>2, <2>1 DEF Recorder!StyleWith, Proper
  <2>3. ToldCall(call) = "setDrawStyle" /\ ToldArg(call, arg) = w
    BY ONLY <1>2, <2>1 DEF ToldCall, ToldArg
  <2> QED BY ONLY <2>2, <2>3 DEF Proper, StyleOps
<1>3. CASE call = "setText"
  <2>1. PICK g : g = Recorder!FontOf(Recorder!FontId(arg.font))
    OBVIOUS
  <2>2. ToldCall(call) = "setText" /\ ToldArg(call, arg) = Lettered(arg, g)
    BY ONLY <1>3, <2>1 DEF ToldCall, ToldArg
  <2>3. IsSeq(arg.text)
    BY <1>3 DEF Proper
  <2>4. PICK l : l = Lettered(arg, g)
    OBVIOUS
  <2>5. l = [x |-> l.x, ink |-> l.ink, font |-> l.font, turn |-> l.turn, text |-> l.text] /\ l.text = arg.text
    BY ONLY <2>4 DEF Lettered
  <2> QED BY ONLY <2>2, <2>3, <2>4, <2>5 DEF Proper, Writers
<1>4. CASE call = "setFont"
  <2>1. ToldCall(call) = "setFont"
    BY ONLY <1>4 DEF ToldCall
  <2> QED BY ONLY <2>1 DEF Proper, TextSetters
<1>5. CASE call \notin {"println", "setStrokeWidth", "setAntiAlias", "setDrawStyle", "setText", "setFont"}
  <2>1. ToldCall(call) = call /\ ToldArg(call, arg) = arg
    BY ONLY <1>5 DEF ToldCall, ToldArg
  <2> QED BY ONLY <2>1, Proper(call, arg)
<1> QED BY <1>1, <1>2, <1>3, <1>4, <1>5

(* All marks of a call pass, or none: those of the calls that are let through. *)
LEMMA MarksPass ==
    ASSUME NEW call, NEW arg, Proper(call, arg), NEW s, NEW t, NEW n, Shape(call, arg, s, t, n)
    PROVE  \A i \in DOMAIN n : PassesIn(mask, n[i]) <=> Recorder!Allow(Recorder!Family(call), arg)
<1> SUFFICES ASSUME NEW i \in DOMAIN n
             PROVE  PassesIn(mask, n[i]) <=> Recorder!Allow(Recorder!Family(call), arg)
  OBVIOUS
<1> DEFINE Goal == PassesIn(mask, n[i]) <=> Recorder!Allow(Recorder!Family(call), arg)
<1>1. CASE call \in GeometryOps
  <2>1. Recorder!Family(call) = "geometry"
    BY <1>1, FamilyIs
  <2>2. n[i][1] \in {"rect", "fill", "screen"}
    BY <1>1 DEF Shape
  <2> QED BY ONLY <2>1, <2>2 DEF PassesIn, Recorder!Allow
<1>2. CASE call = "drawBitmap"
  <2>1. Recorder!Family(call) = "bitmap"
    BY <1>2, FamilyIs
  <2>2. n[i] = <<"bitmap", arg>>
    BY <1>2 DEF Shape
  <2> QED BY ONLY <2>1, <2>2 DEF PassesIn, Recorder!Allow
<1>3. CASE call \in StyleOps
  <2>1. DOMAIN n = {}
    BY <1>3, SeqEmpty DEF Shape
  <2> QED BY ONLY <2>1, i \in DOMAIN n
<1>4. CASE call \in TextSetters \cup Writers
  <2>1. Recorder!Family(call) = "text"
    BY <1>4, FamilyIs
  <2>2. n[i][1] = "char"
    BY <1>4 DEF Shape, Characters
  <2> QED BY ONLY <2>1, <2>2 DEF PassesIn, Recorder!Allow
<1> QED BY <1>1, <1>2, <1>3, <1>4 DEF Proper

-----------------------------------------------------------------------------
(* How the viewer's state follows the recorder's *)

FontsKnown(call, arg) ==
    /\ call = "setFont" => Recorder!FontOf(Recorder!FontId(arg)) = arg
    /\ call = "setText" => Recorder!FontOf(Recorder!FontId(arg.font)) = arg.font
Grown(known, call) == known \cup Recorder!Sets(call)

(* A call that is dropped changes nothing that matters under the mask. *)
LEMMA DroppedFollows ==
    ASSUME NEW call, NEW arg, Proper(call, arg), NEW s, NEW t, NEW n, Shape(call, arg, s, t, n),
           ~Recorder!Allow(Recorder!Family(call), arg), Whole, NEW u, NEW known, Agree(mask, known, u, s)
    PROVE  Agree(mask, Grown(known, call), u, t)
<1>1. CASE call \in GeometryOps \cup {"drawBitmap"}
  <2>1. t = s
    BY <1>1 DEF Shape
  <2>2. Grown(known, call) = known
    BY <1>1 DEF Grown, Recorder!Sets, GeometryOps
  <2> QED BY <2>1, <2>2
<1>2. CASE call \in StyleOps
  <2>1. Recorder!Family(call) = "style"
    BY <1>2, FamilyIs
  <2>2. "style" \notin mask
    BY <2>1 DEF Recorder!Allow
  <2>3. "text" \notin mask
    BY <2>2 DEF Whole, Recorder!Whole
  <2> QED BY ONLY <2>2, <2>3 DEF Agree, AgreeOn
<1>3. CASE call \in TextSetters \cup Writers
  <2>1. Recorder!Family(call) = "text"
    BY <1>3, FamilyIs
  <2>2. "text" \notin mask
    BY <2>1 DEF Recorder!Allow
  <2>3. Retains(s, t, {"stroke", "smooth", "w"})
    BY <1>3 DEF Shape
  <2>4. t.stroke = s.stroke /\ t.smooth = s.smooth /\ t.w = s.w /\ t.h = s.h
    BY ONLY <2>3 DEF Retains
  <2>5. "style" \in Grown(known, call) => "style" \in known
    BY <1>3 DEF Grown, Recorder!Sets, TextSetters, Writers
  <2> QED BY ONLY <2>2, <2>4, <2>5, Agree(mask, known, u, s) DEF Agree, AgreeOn
<1> QED BY <1>1, <1>2, <1>3 DEF Proper

(* The cursor of both put at the same place. *)
LEMMA AgreePut ==
    ASSUME NEW M, NEW known, NEW u, NEW s, Agree(M, known, u, s), NEW x, NEW y
    PROVE  Agree(M, known, Put(u, x, y), Put(s, x, y))
<1> DEFINE a == Put(u, x, y)
           b == Put(s, x, y)
<1>1. /\ a.x = x /\ a.y = y /\ a.ink = u.ink /\ a.size = u.size /\ a.wrap = u.wrap /\ a.font = u.font
      /\ a.stroke = u.stroke /\ a.smooth = u.smooth /\ a.w = u.w /\ a.h = u.h
  BY PutFields
<1>2. /\ b.x = x /\ b.y = y /\ b.ink = s.ink /\ b.size = s.size /\ b.wrap = s.wrap /\ b.font = s.font
      /\ b.stroke = s.stroke /\ b.smooth = s.smooth /\ b.w = s.w /\ b.h = s.h
  BY PutFields
<1> HIDE DEF a, b
<1>3. Agree(M, known, a, b)
  BY ONLY <1>1, <1>2, Agree(M, known, u, s) DEF Agree, AgreeOn
<1> QED BY <1>3 DEF a, b

(* From here on: the call as the recorder draws it, the call as the viewer   *)
(* is told of it, each from nothing.                                         *)
Both(call, arg, s, t, n, u, v, k) ==
    /\ IsState(s) /\ IsState(u)
    /\ Recorder!Draw(<<s, << >>>>, call, arg) = <<t, n>>
    /\ Recorder!Draw(<<u, << >>>>, ToldCall(call), ToldArg(call, arg)) = <<v, k>>
    /\ s.smooth = rec.smooth /\ s.stroke = rec.stroke
Tracks(call, known, t, n, v, k) == k = n /\ Agree(mask, Grown(known, call), v, t)

LEMMA MarksFollow ==
    ASSUME NEW call, NEW arg, NEW s, NEW t, NEW n, NEW u, NEW v, NEW k, Both(call, arg, s, t, n, u, v, k),
           NEW known, Agree(mask, known, u, s), Recorder!Needs(call) \subseteq known, Whole,
           call \in GeometryOps \cup {"drawBitmap"}, Recorder!Allow(Recorder!Family(call), arg)
    PROVE  Tracks(call, known, t, n, v, k)
<1>1. MarkDrawn(s, << >>, call, arg)
  BY MarkDraws, SeqEmpty DEF Both
<1>2. MarkDrawn(u, << >>, call, arg)
  BY MarkDraws, SeqEmpty DEF Both
<1>3. ToldCall(call) = call /\ ToldArg(call, arg) = arg
  BY DEF ToldCall, ToldArg, GeometryOps
<1>4. <<t, n>> = <<s, << >> \o MarksOf(s, call, arg)>> /\ <<v, k>> = <<u, << >> \o MarksOf(u, call, arg)>>
  BY ONLY Both(call, arg, s, t, n, u, v, k), <1>1, <1>2, <1>3, Zenon DEF MarkDrawn, Both
<1>5. t = s /\ v = u /\ n = << >> \o MarksOf(s, call, arg) /\ k = << >> \o MarksOf(u, call, arg)
  BY ONLY <1>4
<1>6. MarksOf(u, call, arg) = MarksOf(s, call, arg)
  <2>1. CASE call = "drawRect"
    <3>1. "geometry" \in mask /\ "style" \in known
      BY <2>1 DEF Recorder!Allow, Recorder!Family, Recorder!Needs
    <3>2. "style" \in mask
      BY <3>1 DEF Whole, Recorder!Whole
    <3>3. u.stroke = s.stroke /\ u.smooth = s.smooth
      BY <3>1, <3>2 DEF Agree
    <3> QED BY ONLY <2>1, <3>3, Zenon DEF MarksOf
  <2>2. CASE call # "drawRect"
    BY <2>2 DEF MarksOf, GeometryOps
  <2> QED BY <2>1, <2>2
<1>7. Grown(known, call) = known
  BY DEF Grown, Recorder!Sets, GeometryOps
<1> QED BY ONLY <1>5, <1>6, <1>7, Agree(mask, known, u, s), Zenon DEF Tracks

LEMMA SettersFollow ==
    ASSUME NEW call, NEW arg, NEW s, NEW t, NEW n, NEW u, NEW v, NEW k, Both(call, arg, s, t, n, u, v, k),
           NEW known, Agree(mask, known, u, s), call \in StyleOps \cup TextSetters, FontsKnown(call, arg),
           Recorder!Allow(Recorder!Family(call), arg)
    PROVE  Tracks(call, known, t, n, v, k)
<1>1. PICK c, a : c = ToldCall(call) /\ a = ToldArg(call, arg)
  OBVIOUS
<1>2. c \in StyleOps \cup TextSetters
  BY <1>1 DEF ToldCall, StyleOps, TextSetters
<1>3. DrawDoes(s, << >>, call, arg, Recorder!Draw(<<s, << >>>>, call, arg))
  BY DrawIs, SeqEmpty DEF Both
<1>4. DrawDoes(u, << >>, c, a, Recorder!Draw(<<u, << >>>>, c, a))
  BY DrawIs, SeqEmpty DEF Both
<1>5. <<t, n>> = <<Recorder!Setter(s, call, arg), << >>>>
  BY ONLY Both(call, arg, s, t, n, u, v, k), <1>3, call \in StyleOps \cup TextSetters, Zenon DEF DrawDoes, Both
<1>6. <<v, k>> = <<Recorder!Setter(u, c, a), << >>>>
  BY ONLY Both(call, arg, s, t, n, u, v, k), <1>1, <1>2, <1>4, Zenon DEF DrawDoes, Both
<1>7. n = << >> /\ k = << >> /\ t = Recorder!Setter(s, call, arg) /\ v = Recorder!Setter(u, c, a)
  BY ONLY <1>5, <1>6
<1>8. SetterIs(s, call, arg, t)
  BY <1>7, SetterDoes DEF Both
<1>9. SetterIs(u, c, a, v)
  BY <1>7, SetterDoes DEF Both
<1>10. CASE call \in {"setCursor", "setTextColor", "setTextSize", "setTextWrap", "setFont"}
  <2>1. c = call /\ a = arg
    BY <1>1, <1>10 DEF ToldCall, ToldArg, FontsKnown
  <2>2. CASE call = "setCursor"
    <3>1. Grown(known, call) = known \cup {"cursor"}
      BY <2>2 DEF Grown, Recorder!Sets
    <3> QED BY ONLY <1>7, <1>8, <1>9, <2>1, <2>2, <3>1, Agree(mask, known, u, s)
            DEF Tracks, SetterIs, Retains, FieldNames, Agree, AgreeOn
  <2>3. CASE call = "setTextColor"
    <3>1. Grown(known, call) = known \cup {"ink"}
      BY <2>3 DEF Grown, Recorder!Sets
    <3> QED BY ONLY <1>7, <1>8, <1>9, <2>1, <2>3, <3>1, Agree(mask, known, u, s)
            DEF Tracks, SetterIs, Retains, FieldNames, Agree, AgreeOn
  <2>4. CASE call = "setTextSize"
    <3>1. Grown(known, call) = known \cup {"size"}
      BY <2>4 DEF Grown, Recorder!Sets
    <3> QED BY ONLY <1>7, <1>8, <1>9, <2>1, <2>4, <3>1, Agree(mask, known, u, s)
            DEF Tracks, SetterIs, Retains, FieldNames, Agree, AgreeOn
  <2>5. CASE call = "setTextWrap"
    <3>1. Grown(known, call) = known \cup {"wrap"}
      BY <2>5 DEF Grown, Recorder!Sets
    <3> QED BY ONLY <1>7, <1>8, <1>9, <2>1, <2>5, <3>1, Agree(mask, known, u, s)
            DEF Tracks, SetterIs, Retains, FieldNames, Agree, AgreeOn
  <2>6. CASE call = "setFont"
    <3>1. Grown(known, call) = known \cup {"font"}
      BY <2>6 DEF Grown, Recorder!Sets
    <3> QED BY ONLY <1>7, <1>8, <1>9, <2>1, <2>6, <3>1, Agree(mask, known, u, s)
            DEF Tracks, SetterIs, Retains, FieldNames, Agree, AgreeOn
  <2> QED BY <1>10, <2>2, <2>3, <2>4, <2>5, <2>6
<1>11. CASE call \in {"setStrokeWidth", "setAntiAlias", "setDrawStyle"}
  <2>1. c = "setDrawStyle" /\ a = Recorder!StyleWith(call, arg)
    BY ONLY <1>1, <1>11 DEF ToldCall, ToldArg
  <2>2. IsState(v) /\ v.stroke = a[1] /\ v.smooth = a[2] /\ Retains(u, v, FieldNames \ {"stroke", "smooth"})
    BY ONLY <1>9, <2>1 DEF SetterIs
  <2>3. t.stroke = a[1] /\ t.smooth = a[2] /\ Retains(s, t, FieldNames \ {"stroke", "smooth"})
    <3>1. CASE call = "setStrokeWidth"
      <4>1. t.stroke = arg /\ Retains(s, t, FieldNames \ {"stroke"})
        BY ONLY <1>8, <3>1 DEF SetterIs
      <4>2. a = <<arg, rec.smooth>>
        BY <2>1, <3>1 DEF Recorder!StyleWith
      <4>3. s.smooth = rec.smooth
        BY DEF Both
      <4> QED BY ONLY <4>1, <4>2, <4>3 DEF Retains, FieldNames
    <3>2. CASE call = "setAntiAlias"
      <4>1. t.smooth = arg /\ Retains(s, t, FieldNames \ {"smooth"})
        BY ONLY <1>8, <3>2 DEF SetterIs
      <4>2. a = <<rec.stroke, arg>>
        BY <2>1, <3>2 DEF Recorder!StyleWith
      <4>3. s.stroke = rec.stroke
        BY DEF Both
      <4> QED BY ONLY <4>1, <4>2, <4>3 DEF Retains, FieldNames
    <3>3. CASE call = "setDrawStyle"
      <4>1. t.stroke = arg[1] /\ t.smooth = arg[2] /\ Retains(s, t, FieldNames \ {"stroke", "smooth"})
        BY ONLY <1>8, <3>3 DEF SetterIs
      <4>2. a = arg
        BY <2>1, <3>3 DEF Recorder!StyleWith
      <4> QED BY ONLY <4>1, <4>2
    <3> QED BY <1>11, <3>1, <3>2, <3>3
  <2>4. Grown(known, call) \subseteq known \cup {"style"}
    BY <1>11 DEF Grown, Recorder!Sets
  <2> QED BY ONLY <1>7, <2>2, <2>3, <2>4, Agree(mask, known, u, s) DEF Tracks, Retains, FieldNames, Agree, AgreeOn
<1>12. CASE call = "setRotation"
  <2>1. c = call /\ a = arg /\ Grown(known, call) = known
    BY <1>1, <1>12 DEF ToldCall, ToldArg, Grown, Recorder!Sets
  <2>2. "style" \in mask
    BY <1>12 DEF Recorder!Allow, Recorder!Family
  <2>3. /\ Retains(s, t, FieldNames \ {"w"}) /\ t.w = (IF arg % 2 = 1 THEN s.h ELSE s.w)
        /\ t.h = (IF arg % 2 = 1 THEN s.w ELSE s.h)
    BY ONLY <1>8, <1>12 DEF SetterIs
  <2>4. /\ Retains(u, v, FieldNames \ {"w"}) /\ v.w = (IF arg % 2 = 1 THEN u.h ELSE u.w)
        /\ v.h = (IF arg % 2 = 1 THEN u.w ELSE u.h)
    BY ONLY <1>9, <1>12, <2>1 DEF SetterIs
  <2>5. u.w = s.w /\ u.h = s.h
    BY <2>2 DEF Agree
  <2>6. t.w = v.w /\ t.h = v.h
    BY ONLY <2>3, <2>4, <2>5, Zenon
  <2>7. Retains(s, t, FieldNames \ {"w"}) /\ Retains(u, v, FieldNames \ {"w"})
    BY <2>3, <2>4
  <2> QED BY ONLY <1>7, <2>1, <2>6, <2>7, Agree(mask, known, u, s) DEF Tracks, Retains, FieldNames, Agree, AgreeOn
<1> QED BY <1>10, <1>11, <1>12 DEF StyleOps, TextSetters

LEMMA WritersFollow ==
    ASSUME NEW call, NEW arg, NEW s, NEW t, NEW n, NEW u, NEW v, NEW k, Both(call, arg, s, t, n, u, v, k),
           NEW known, Agree(mask, known, u, s), Recorder!Needs(call) \subseteq known, Whole, Proper(call, arg),
           call \in Writers, FontsKnown(call, arg), Recorder!Allow(Recorder!Family(call), arg)
    PROVE  Tracks(call, known, t, n, v, k)
<1>s. IsState(s) /\ IsState(u) /\ IsSeq(<< >>)
  BY SeqEmpty DEF Both
<1>a. "text" \in mask
  <2>1. Recorder!Family(call) = "text"
    BY DEF Writers, Recorder!Family
  <2> QED BY <2>1 DEF Recorder!Allow
<1>b. u.w = s.w /\ u.h = s.h
  BY <1>a DEF Whole, Recorder!Whole, Agree
<1>1. CASE call = "writeText"
  <2>1. {"cursor", "ink", "size", "wrap", "font"} \subseteq known /\ Grown(known, call) = known
    BY <1>1 DEF Recorder!Needs, Grown, Recorder!Sets
  <2>2. TextSame(s, u) /\ s.x = u.x /\ s.y = u.y
    BY <1>a, <1>b, <2>1 DEF TextSame, Agree, AgreeOn
  <2>3. IsSeq(arg) /\ ToldCall(call) = call /\ ToldArg(call, arg) = arg
    BY <1>1 DEF Proper, ToldCall, ToldArg
  <2>4. WroteAlike(Recorder!Draw(<<s, << >>>>, "writeText", arg), Recorder!Draw(<<u, << >>>>, "writeText", arg),
                   s, u, << >>, << >>)
    BY ONLY <1>s, <2>2, <2>3, WriteTextPair
  <2>5. WroteAlike(<<t, n>>, <<v, k>>, s, u, << >>, << >>)
    BY ONLY Both(call, arg, s, t, n, u, v, k), <1>1, <2>3, <2>4, Zenon DEF Both
  <2>6. PICK m, x, y : <<t, n>> = <<Put(s, x, y), << >> \o m>> /\ <<v, k>> = <<Put(u, x, y), << >> \o m>>
    BY ONLY <2>5, Zenon DEF WroteAlike
  <2>7. t = Put(s, x, y) /\ v = Put(u, x, y) /\ n = k
    BY ONLY <2>6
  <2>8. Agree(mask, known, Put(u, x, y), Put(s, x, y))
    BY AgreePut
  <2> QED BY ONLY <2>1, <2>7, <2>8, Zenon DEF Tracks
<1>2. CASE call = "println"
  <2>1. {"cursor", "size", "font"} \subseteq known /\ Grown(known, call) = known
    BY <1>2 DEF Recorder!Needs, Grown, Recorder!Sets
  <2>2. s.y = u.y /\ s.size = u.size /\ s.font = u.font
    BY <1>a, <2>1 DEF Agree, AgreeOn
  <2>3. Recorder!Scale(s) = Recorder!Scale(u)
    BY ONLY <2>2, Zenon DEF Recorder!Scale
  <2>4. ToldCall(call) = "writeText" /\ ToldArg(call, arg) = <<"newline">>
    BY ONLY <1>2 DEF ToldCall, ToldArg
  <2>5. DrawDoes(s, << >>, "println", arg, Recorder!Draw(<<s, << >>>>, "println", arg))
    BY <1>s, DrawIs
  <2>6. Recorder!Draw(<<s, << >>>>, "println", arg) = <<Recorder!NewLine(s, 0), << >>>>
    BY ONLY <2>5, Zenon DEF DrawDoes
  <2>7. Recorder!Draw(<<u, << >>>>, "writeText", <<"newline">>) = <<Recorder!NewLine(u, 0), << >>>>
    BY <1>s, NewlineWritten
  <2>8. PICK y : y = s.y + Recorder!Scale(s)
    OBVIOUS
  <2>9. Recorder!NewLine(s, 0) = Put(s, 0, y) /\ Recorder!NewLine(u, 0) = Put(u, 0, y)
    BY <1>s, <2>2, <2>3, <2>8, NewLineIs
  <2>10. <<t, n>> = <<Put(s, 0, y), << >>>> /\ <<v, k>> = <<Put(u, 0, y), << >>>>
    BY ONLY Both(call, arg, s, t, n, u, v, k), <1>2, <2>4, <2>6, <2>7, <2>9, Zenon DEF Both
  <2>11. t = Put(s, 0, y) /\ v = Put(u, 0, y) /\ n = k
    BY ONLY <2>10
  <2>12. Agree(mask, known, Put(u, 0, y), Put(s, 0, y))
    BY AgreePut
  <2> QED BY ONLY <2>1, <2>11, <2>12, Zenon DEF Tracks
<1>3. CASE call = "setText"
  <2>1. "wrap" \in known /\ Grown(known, call) = known \cup {"cursor", "ink", "size", "font"}
    BY <1>3 DEF Recorder!Needs, Grown, Recorder!Sets
  <2>2. s.wrap = u.wrap /\ s.w = u.w
    BY <1>a, <1>b, <2>1 DEF Agree, AgreeOn
  <2>3. ToldCall(call) = call /\ IsSeq(arg.text)
    BY <1>3 DEF Proper, ToldCall
  <2>4. ToldArg(call, arg) = arg
    <3>1. ToldArg(call, arg) = Lettered(arg, arg.font)
      BY ONLY <1>3, FontsKnown(call, arg), Zenon DEF ToldArg, FontsKnown
    <3>2. arg = Lettered(arg, arg.font)
      BY <1>3 DEF Proper, Lettered
    <3> QED BY <3>1, <3>2
  <2>5. WroteAlike(Recorder!Draw(<<s, << >>>>, "setText", arg), Recorder!Draw(<<u, << >>>>, "setText", arg),
                   Start(s, arg), Start(u, arg), << >>, << >>)
    BY ONLY <1>s, <2>2, <2>3, SetTextPair
  <2>6. WroteAlike(<<t, n>>, <<v, k>>, Start(s, arg), Start(u, arg), << >>, << >>)
    BY ONLY Both(call, arg, s, t, n, u, v, k), <1>3, <2>3, <2>4, <2>5, Zenon DEF Both
  <2>7. PICK a, b : a = Start(s, arg) /\ b = Start(u, arg)
    OBVIOUS
  <2>8. /\ Retains(s, a, {"wrap", "stroke", "smooth", "w"})
        /\ a.x = arg.x /\ a.y = 0 /\ a.ink = arg.ink /\ a.size = 1 /\ a.font = arg.font
    BY <2>7, StartFields
  <2>9. /\ Retains(u, b, {"wrap", "stroke", "smooth", "w"})
        /\ b.x = arg.x /\ b.y = 0 /\ b.ink = arg.ink /\ b.size = 1 /\ b.font = arg.font
    BY <2>7, StartFields
  <2>10. Agree(mask, Grown(known, call), b, a)
    BY ONLY <2>1, <2>8, <2>9, Agree(mask, known, u, s) DEF Retains, Agree, AgreeOn
  <2>11. PICK m, x, y : <<t, n>> = <<Put(a, x, y), << >> \o m>> /\ <<v, k>> = <<Put(b, x, y), << >> \o m>>
    BY ONLY <2>6, <2>7, Zenon DEF WroteAlike
  <2>12. t = Put(a, x, y) /\ v = Put(b, x, y) /\ n = k
    BY ONLY <2>11
  <2>13. Agree(mask, Grown(known, call), Put(b, x, y), Put(a, x, y))
    BY <2>10, AgreePut
  <2> QED BY ONLY <2>12, <2>13, Zenon DEF Tracks
<1> QED BY <1>1, <1>2, <1>3 DEF Writers

LEMMA AllowedFollows ==
    ASSUME NEW call, NEW arg, NEW s, NEW t, NEW n, NEW u, NEW v, NEW k, Both(call, arg, s, t, n, u, v, k),
           NEW known, Agree(mask, known, u, s), Recorder!Needs(call) \subseteq known, Whole, Proper(call, arg),
           FontsKnown(call, arg), Recorder!Allow(Recorder!Family(call), arg)
    PROVE  Tracks(call, known, t, n, v, k)
<1>1. CASE call \in GeometryOps \cup {"drawBitmap"}
  BY <1>1, MarksFollow
<1>2. CASE call \in StyleOps \cup TextSetters
  BY <1>2, SettersFollow
<1>3. CASE call \in Writers
  BY <1>3, WritersFollow
<1> QED BY <1>1, <1>2, <1>3 DEF Proper

(* What the viewer has after one call more on the recorder, from where it    *)
(* would be were the frame exported before it; and if the two agreed before  *)
(* on what the call leans on, they agree after it, and on what it sets.      *)
Keeps(s, t, call) == IsState(t) /\ (call # "setRotation" => Retains(s, t, {"w"}))
Step(call, arg, D, u, V, t, n, v, k) ==
    /\ Draws(call, arg, rec, D, t, n) /\ Keeps(rec, t, call)
    /\ Playing!Fold(<<u, V>>, Recorder!Encode(call, arg)) = <<v, V \o k>> /\ IsSeq(k) /\ Keeps(u, v, call)
    /\ Through(mask, D \o n) =
           IF Recorder!Allow(Recorder!Family(call), arg) THEN Through(mask, D) \o n ELSE Through(mask, D)
    /\ IF Recorder!Allow(Recorder!Family(call), arg) THEN Both(call, arg, rec, t, n, u, v, k)
       ELSE v = u /\ k = << >>

LEMMA CallSteps ==
    ASSUME NEW call, NEW arg, Proper(call, arg), IsState(rec), rec.smooth \in BOOLEAN,
           NEW D, IsSeq(D), NEW u, IsState(u), NEW V, IsSeq(V)
    PROVE  \E t, n, v, k : Step(call, arg, D, u, V, t, n, v, k)
<1>1. PICK t, n : Draws(call, arg, rec, D, t, n)
  BY DrawShape
<1>2. Shape(call, arg, rec, t, n) /\ Recorder!Draw(<<rec, << >>>>, call, arg) = <<t, n>>
  BY ONLY <1>1 DEF Draws
<1>3. IsSeq(n) /\ Keeps(rec, t, call)
  BY ONLY <1>2 DEF Shape, Keeps
<1>a. PICK p \in BOOLEAN : p <=> Recorder!Allow(Recorder!Family(call), arg)
  <2>1. Recorder!Allow(Recorder!Family(call), arg) \in BOOLEAN
    BY DEF Recorder!Allow
  <2> QED BY <2>1
<1>4. Through(mask, D \o n) = IF p THEN Through(mask, D) \o n ELSE Through(mask, D)
  <2>1. \A i \in DOMAIN n : PassesIn(mask, n[i]) <=> Recorder!Allow(Recorder!Family(call), arg)
    BY <1>2, MarksPass
  <2>2. \A i \in DOMAIN n : PassesIn(mask, n[i]) <=> p
    BY <1>a, <2>1
  <2> QED BY <1>3, <2>2, ThroughAll
<1>e. Recorder!Encode(call, arg) =
          IF Recorder!Allow(Recorder!Family(call), arg) THEN Sent(call, arg) ELSE << >>
  BY EncodeIs
<1>5. CASE ~Recorder!Allow(Recorder!Family(call), arg)
  <2>1. Playing!Fold(<<u, V>>, << >>) = <<u, V>>
    BY FoldOne
  <2>2. V \o << >> = V /\ IsSeq(<< >>)
    BY SeqFacts
  <2>3. Keeps(u, u, call)
    BY DEF Keeps, Retains
  <2>4. Playing!Fold(<<u, V>>, Recorder!Encode(call, arg)) = <<u, V \o << >>>>
    BY ONLY <1>5, <1>e, <2>1, <2>2, Zenon
  <2>5. Step(call, arg, D, u, V, t, n, u, << >>)
    BY ONLY <1>1, <1>3, <1>4, <1>a, <1>5, <2>2, <2>3, <2>4, Zenon DEF Step
  <2> QED BY <2>5
<1>6. CASE Recorder!Allow(Recorder!Family(call), arg)
  <2>0. PICK c, a : c = ToldCall(call) /\ a = ToldArg(call, arg)
    OBVIOUS
  <2>1. Proper(c, a)
    BY <2>0, ToldProper
  <2>2. PICK v, k : Draws(c, a, u, V, v, k)
    BY <2>1, DrawShape
  <2>3. /\ Shape(c, a, u, v, k) /\ Recorder!Draw(<<u, << >>>>, c, a) = <<v, k>>
        /\ Recorder!Draw(<<u, V>>, c, a) = <<v, V \o k>>
    BY ONLY <2>2 DEF Draws
  <2>4. c = "setRotation" <=> call = "setRotation"
    BY ONLY <2>0 DEF ToldCall
  <2>5. IsSeq(k) /\ Keeps(u, v, call)
    BY ONLY <2>3, <2>4 DEF Shape, Keeps
  <2>6. SentIsTold(<<u, V>>, call, arg)
    BY SentTold
  <2>7. Playing!Fold(<<u, V>>, Recorder!Encode(call, arg)) = <<v, V \o k>>
    BY ONLY <1>6, <1>e, <2>0, <2>3, <2>6, Zenon DEF SentIsTold, ToldDraw
  <2>8. Both(call, arg, rec, t, n, u, v, k)
    BY ONLY IsState(rec), IsState(u), <1>2, <2>0, <2>3, Zenon DEF Both
  <2>9. Step(call, arg, D, u, V, t, n, v, k)
    BY ONLY <1>1, <1>3, <1>4, <1>a, <1>6, <2>5, <2>7, <2>8, Zenon DEF Step
  <2> QED BY <2>9
<1> QED BY <1>5, <1>6

LEMMA StepFollows ==
    ASSUME NEW call, NEW arg, Proper(call, arg), NEW D, NEW u, NEW V, NEW t, NEW n, NEW v, NEW k,
           Step(call, arg, D, u, V, t, n, v, k), V = Through(mask, D), IsSeq(V),
           NEW known, Agree(mask, known, u, rec), Recorder!Needs(call) \subseteq known, Whole,
           FontsKnown(call, arg)
    PROVE  V \o k = Through(mask, D \o n) /\ Agree(mask, Grown(known, call), v, t)
<1>1. CASE ~Recorder!Allow(Recorder!Family(call), arg)
  <2>1. v = u /\ k = << >> /\ Through(mask, D \o n) = Through(mask, D) /\ Draws(call, arg, rec, D, t, n)
    BY ONLY <1>1, Step(call, arg, D, u, V, t, n, v, k), Zenon DEF Step
  <2>2. V \o << >> = V
    BY SeqFacts
  <2>3. Shape(call, arg, rec, t, n)
    BY ONLY <2>1, Zenon DEF Draws
  <2>4. Agree(mask, Grown(known, call), u, t)
    BY <1>1, <2>3, DroppedFollows
  <2> QED BY ONLY <2>1, <2>2, <2>4, V = Through(mask, D), Zenon
<1>2. CASE Recorder!Allow(Recorder!Family(call), arg)
  <2>1. Both(call, arg, rec, t, n, u, v, k) /\ Through(mask, D \o n) = Through(mask, D) \o n
    BY ONLY <1>2, Step(call, arg, D, u, V, t, n, v, k), Zenon DEF Step
  <2>2. Tracks(call, known, t, n, v, k)
    BY <1>2, <2>1, AllowedFollows
  <2> QED BY ONLY <2>1, <2>2, V = Through(mask, D), Zenon DEF Tracks
<1> QED BY <1>1, <1>2

-----------------------------------------------------------------------------
(* The steps *)

LEMMA EncodeSeq == ASSUME NEW call, NEW arg, Proper(call, arg) PROVE IsSeq(Recorder!Encode(call, arg))
<1>1. \A e : IsSeq(<<e>>)
  BY SeqOne
<1>2. IsSeq(<< >>)
  BY SeqEmpty
<1>3. Sent(call, arg) = << >> \/ \E e : Sent(call, arg) = <<e>>
  <2>1. CASE call = "drawBitmap"
    BY ONLY <2>1, Zenon DEF Sent
  <2>2. CASE call \in {"setStrokeWidth", "setAntiAlias", "setDrawStyle"}
    BY ONLY <2>2 DEF Sent
  <2>3. CASE call = "setTextWrap"
    BY ONLY <2>3 DEF Sent
  <2>4. CASE call = "setFont"
    BY ONLY <2>4 DEF Sent
  <2>5. CASE call = "setText"
    BY ONLY <2>5, Zenon DEF Sent
  <2>6. CASE call = "println"
    BY ONLY <2>6 DEF Sent
  <2>7. CASE call = "writeText"
    BY ONLY <2>7, Zenon DEF Sent
  <2>8. CASE call \notin {"drawBitmap", "setStrokeWidth", "setAntiAlias", "setDrawStyle", "setTextWrap", "setFont",
                          "setText", "println", "writeText"}
    BY ONLY <2>8 DEF Sent
  <2> QED BY <2>1, <2>2, <2>3, <2>4, <2>5, <2>6, <2>7, <2>8
<1>4. IsSeq(Sent(call, arg))
  BY ONLY <1>1, <1>2, <1>3, Zenon
<1>5. Recorder!Encode(call, arg) =
          IF Recorder!Allow(Recorder!Family(call), arg) THEN Sent(call, arg) ELSE << >>
  BY EncodeIs
<1> QED BY ONLY <1>2, <1>4, <1>5, Zenon

LEMMA CallsProper == ASSUME NEW c \in Calls PROVE Proper(c[1], c[2])
<1> DEFINE call == c[1]
           arg == c[2]
<1>1. CASE call = "writeText"
  <2>1. arg \in Seq({arg[i] : i \in DOMAIN arg})
    BY <1>1, ReplayConstants
  <2> QED BY <1>1, <2>1 DEF Proper, Writers, IsSeq
<1>2. CASE call = "setText"
  <2>1. /\ arg = [x |-> arg.x, ink |-> arg.ink, font |-> arg.font, turn |-> arg.turn, text |-> arg.text]
        /\ arg.text \in Seq({arg.text[i] : i \in DOMAIN arg.text})
    BY <1>2, ReplayConstants
  <2>2. IsSeq(arg.text)
    BY <2>1 DEF IsSeq
  <2> QED BY ONLY <1>2, <2>1, <2>2 DEF Proper, Writers
<1>3. CASE call \in {"setTextWrap", "setAntiAlias"}
  <2>1. arg \in BOOLEAN
    BY <1>3, ReplayConstants
  <2> QED BY ONLY <1>3, <2>1 DEF Proper, TextSetters, StyleOps
<1>4. CASE call = "setDrawStyle"
  <2>1. arg = <<arg[1], arg[2]>> /\ arg[2] \in BOOLEAN
    BY <1>4, ReplayConstants
  <2> QED BY ONLY <1>4, <2>1 DEF Proper, StyleOps
<1>5. CASE call \notin {"writeText", "setText", "setTextWrap", "setAntiAlias", "setDrawStyle"}
  <2>1. call \in {"drawRect", "fillRect", "fillScreen", "drawBitmap", "println", "setCursor",
                  "setTextColor", "setTextSize", "setFont", "setStrokeWidth", "setRotation"}
    BY <1>5, ReplayConstants
  <2> QED BY ONLY <2>1, <1>5 DEF Proper, GeometryOps, StyleOps, TextSetters, Writers
<1> QED BY <1>1, <1>2, <1>3, <1>4, <1>5

LEMMA FreshIs ==
    /\ IsState(Recorder!Fresh) /\ Upright(Recorder!Fresh) /\ Recorder!Fresh.smooth \in BOOLEAN
    /\ \A M, known : Agree(M, known, Recorder!Fresh, Recorder!Fresh)
<1>1. PICK f : f = Recorder!Fresh
  OBVIOUS
<1>2. IsState(f) /\ Upright(f) /\ f.smooth \in BOOLEAN
  BY ONLY <1>1 DEF Recorder!Fresh, IsState, Upright
<1>3. \A M, known : Agree(M, known, Recorder!Fresh, Recorder!Fresh)
  BY DEF Agree, AgreeOn
<1> QED BY <1>1, <1>2, <1>3

LEMMA ReplayInit == Recorder!Init => ReplayInv
<1> SUFFICES ASSUME Recorder!Init PROVE ReplayInv
  OBVIOUS
<1>1. /\ panel = Recorder!Fresh /\ rec = Recorder!Fresh /\ view = Recorder!Fresh
      /\ drawn = << >> /\ stream = << >> /\ shown = << >> /\ seen = << >>
  BY DEF Recorder!Init
<1>2. Viewed = <<view, << >>>>
  BY <1>1, FoldOne DEF Viewed
<1>3. Viewed[1] = view /\ Viewed[2] = << >>
  BY ONLY <1>2
<1>4. IsSeq(<< >>)
  BY SeqEmpty
<1>5. Through(mask, << >>) = << >>
  BY ThroughNone
<1>6. ReplayTypes
  BY ONLY <1>1, <1>2, <1>3, <1>4, FreshIs, Zenon DEF ReplayTypes
<1>7. ExactInv
  BY ONLY <1>1, <1>3, <1>5, FreshIs, Zenon DEF ExactInv
<1>8. AloneInv
  BY ONLY <1>1, <1>3, <1>5, FreshIs, Zenon DEF AloneInv
<1> QED BY <1>6, <1>7, <1>8 DEF ReplayInv

LEMMA CallKeeps ==
    ASSUME ReplayInv, NEW c \in Calls, Recorder!Call(c[1], c[2]) PROVE ReplayInv'
<1> DEFINE call == c[1]
           arg == c[2]
<1>0. Proper(call, arg)
  BY CallsProper
<1> HIDE DEF call, arg
<1>c. Recorder!Call(call, arg)
  BY DEF call, arg
<1>t. ReplayTypes /\ ExactInv /\ AloneInv
  BY DEF ReplayInv
<1>1. PICK u, V : u = Viewed[1] /\ V = Viewed[2]
  OBVIOUS
<1>2. /\ IsState(rec) /\ rec = panel /\ rec.smooth \in BOOLEAN /\ IsSeq(drawn) /\ IsSeq(stream) /\ IsSeq(shown)
      /\ IsState(view) /\ Viewed = <<u, V>> /\ IsState(u) /\ IsSeq(V)
      /\ ~turned => Upright(rec) /\ Upright(view) /\ Upright(u)
  BY ONLY <1>t, <1>1, Zenon DEF ReplayTypes
<1>3. PICK t, n, v, k : Step(call, arg, drawn, u, V, t, n, v, k)
  BY <1>0, <1>2, CallSteps
<1>4. /\ Draws(call, arg, rec, drawn, t, n) /\ Keeps(rec, t, call)
      /\ Playing!Fold(<<u, V>>, Recorder!Encode(call, arg)) = <<v, V \o k>> /\ IsSeq(k) /\ Keeps(u, v, call)
  BY ONLY <1>3, Zenon DEF Step
<1>5. /\ Shape(call, arg, rec, t, n) /\ Recorder!Draw(<<rec, drawn>>, call, arg) = <<t, drawn \o n>>
      /\ Recorder!Draw(<<rec, << >>>>, call, arg) = <<t, n>>
  BY ONLY <1>4, Zenon DEF Draws
<1>6. /\ panel' = Recorder!Draw(<<panel, drawn>>, call, arg)[1]
      /\ drawn' = Recorder!Draw(<<panel, drawn>>, call, arg)[2]
      /\ rec' = Recorder!Draw(<<rec, << >>>>, call, arg)[1]
  BY ONLY <1>c, Zenon DEF Recorder!Call
<1>7. /\ stream' = stream \o Recorder!Encode(call, arg) /\ set' = set \cup Recorder!Sets(call)
      /\ leaned' = <<leaned[1] \/ ~(Recorder!Needs(call) \subseteq set), leaned[2]>>
      /\ turned' = (turned \/ call = "setRotation")
      /\ mask' = mask /\ view' = view /\ shown' = shown /\ seen' = seen /\ delivered' = delivered /\ lost' = lost
  BY ONLY <1>c DEF Recorder!Call
<1>8. ~foreign' => ~foreign /\ FontsKnown(call, arg)
  BY ONLY <1>c DEF Recorder!Call, FontsKnown
<1>9. panel' = t /\ rec' = t /\ drawn' = drawn \o n
  <2>1. panel' = <<t, drawn \o n>>[1] /\ drawn' = <<t, drawn \o n>>[2] /\ rec' = <<t, n>>[1]
    BY ONLY <1>2, <1>5, <1>6, Zenon
  <2> QED BY ONLY <2>1
<1>10. IsSeq(Recorder!Encode(call, arg))
  BY <1>0, EncodeSeq
<1>11. Viewed' = <<v, V \o k>>
  <2>1. PICK e : e = Recorder!Encode(call, arg)
    OBVIOUS
  <2>2. Playing!Fold(<<view, << >>>>, stream \o e) = Playing!Fold(Playing!Fold(<<view, << >>>>, stream), e)
    <3>1. PICK A : stream \in Seq(A)
      BY <1>2 DEF IsSeq
    <3>2. PICK B : e \in Seq(B)
      BY <1>10, <2>1 DEF IsSeq
    <3>3. stream \in Seq(A \cup B) /\ e \in Seq(A \cup B)
      BY ONLY <3>1, <3>2
    <3> QED BY ONLY <3>3, Playing!FoldConcat
  <2>3. Viewed' = Playing!Fold(<<view', << >>>>, stream')
    BY DEF Viewed
  <2>4. Playing!Fold(<<view, << >>>>, stream) = <<u, V>>
    BY ONLY <1>2 DEF Viewed
  <2> QED BY ONLY <1>4, <1>7, <2>1, <2>2, <2>3, <2>4, Zenon
<1>12. Viewed'[1] = v /\ Viewed'[2] = V \o k
  BY ONLY <1>11
<1>w. Whole' <=> Whole
  BY <1>7 DEF Whole, Recorder!Whole
<1>13. ReplayTypes'
  <2>1. IsState(t) /\ IsState(v) /\ t.smooth \in BOOLEAN /\ IsSeq(n)
    BY ONLY <1>2, <1>4, <1>5 DEF Keeps, Shape
  <2>2. IsSeq(drawn \o n) /\ IsSeq(stream \o Recorder!Encode(call, arg)) /\ IsSeq(V \o k)
    BY <1>2, <1>4, <1>10, <2>1, SeqFacts
  <2>3. ~turned' => Upright(t) /\ Upright(view) /\ Upright(v)
    <3> SUFFICES ASSUME ~turned' PROVE Upright(t) /\ Upright(view) /\ Upright(v)
      OBVIOUS
    <3>1. ~turned /\ call # "setRotation"
      BY <1>7
    <3>2. Retains(rec, t, {"w"}) /\ Retains(u, v, {"w"}) /\ Upright(rec) /\ Upright(view) /\ Upright(u)
      BY ONLY <1>2, <1>4, <3>1, Zenon DEF Keeps
    <3> QED BY ONLY <3>2 DEF Retains, Upright
  <2>4. /\ IsState(panel') /\ rec' = panel' /\ IsState(view') /\ rec'.smooth \in BOOLEAN
        /\ IsSeq(drawn') /\ IsSeq(stream') /\ IsSeq(shown') /\ IsSeq(Viewed'[2])
    BY ONLY <1>2, <1>7, <1>9, <1>12, <2>1, <2>2, Zenon
  <2>5. Viewed' = <<Viewed'[1], Viewed'[2]>> /\ IsState(Viewed'[1])
    BY ONLY <1>11, <1>12, <2>1, Zenon
  <2>6. ~turned' => Upright(rec') /\ Upright(view') /\ Upright(Viewed'[1])
    BY ONLY <1>7, <1>9, <1>12, <2>3, Zenon
  <2> QED BY ONLY <2>4, <2>5, <2>6, Zenon DEF ReplayTypes
<1>f. ASSUME NEW known, V = Through(mask, drawn), Agree(mask, known, u, rec), Recorder!Needs(call) \subseteq known,
             Whole, FontsKnown(call, arg)
      PROVE  V \o k = Through(mask, drawn \o n) /\ Agree(mask, Grown(known, call), v, t)
  BY <1>0, <1>2, <1>3, <1>f, StepFollows
<1>14. ExactInv'
  <2> SUFFICES ASSUME ~lost', ~foreign', Whole'
               PROVE  /\ seen' = Through(mask', shown') /\ Viewed'[2] = Through(mask', drawn')
                      /\ Agree(mask', AllNames, Viewed'[1], rec')
    BY DEF ExactInv
  <2>1. ~lost /\ ~foreign /\ Whole /\ FontsKnown(call, arg)
    BY <1>7, <1>8, <1>w
  <2>2. seen = Through(mask, shown) /\ V = Through(mask, drawn) /\ Agree(mask, AllNames, u, rec)
    BY ONLY <1>t, <1>1, <2>1, Zenon DEF ExactInv
  <2>3. Recorder!Needs(call) \subseteq AllNames /\ Grown(AllNames, call) = AllNames
    BY DEF Recorder!Needs, Recorder!Sets, Grown, AllNames
  <2>4. V \o k = Through(mask, drawn \o n) /\ Agree(mask, Grown(AllNames, call), v, t)
    BY <1>f, <2>1, <2>2, <2>3
  <2> QED BY ONLY <1>7, <1>9, <1>12, <2>2, <2>3, <2>4, Zenon
<1>15. AloneInv'
  <2> SUFFICES ASSUME ~turned', ~foreign', Whole'
               PROVE  /\ ~leaned'[1] => Viewed'[2] = Through(mask', drawn') /\ Agree(mask', set', Viewed'[1], rec')
                      /\ delivered' /\ ~leaned'[2] => seen' = Through(mask', shown')
    BY DEF AloneInv
  <2>1. ~turned /\ ~foreign /\ Whole /\ FontsKnown(call, arg)
    BY <1>7, <1>8, <1>w
  <2>2. /\ ~leaned[1] => V = Through(mask, drawn) /\ Agree(mask, set, u, rec)
        /\ delivered /\ ~leaned[2] => seen = Through(mask, shown)
    BY ONLY <1>t, <1>1, <2>1, Zenon DEF AloneInv
  <2>3. leaned'[2] = leaned[2] /\ (~leaned'[1] => ~leaned[1] /\ Recorder!Needs(call) \subseteq set)
    BY ONLY <1>7
  <2>4. ASSUME ~leaned'[1]
        PROVE  Viewed'[2] = Through(mask', drawn') /\ Agree(mask', set', Viewed'[1], rec')
    <3>1. V \o k = Through(mask, drawn \o n) /\ Agree(mask, Grown(set, call), v, t)
      BY <1>f, <2>1, <2>2, <2>3, <2>4
    <3> QED BY ONLY <1>7, <1>9, <1>12, <3>1, Zenon DEF Grown
  <2>5. delivered' /\ ~leaned'[2] => seen' = Through(mask', shown')
    BY ONLY <1>7, <2>2, <2>3, Zenon
  <2> QED BY <2>4, <2>5
<1> QED BY <1>13, <1>14, <1>15 DEF ReplayInv

LEMMA RenderIsFold ==
    ASSUME NEW p, NEW q PROVE Recorder!Render(p, q) = Playing!Fold(p, q)
  BY DEF Recorder!Render, Recorder!FoldLeft, Recorder!MapThenFoldSet, Recorder!Max, Playing!Fold,
         Playing!MapThenFoldSet, Playing!Greatest, Play

LEMMA FrameKeeps ==
    ASSUME ReplayInv, NEW arrives \in BOOLEAN, Recorder!Frame(arrives) PROVE ReplayInv'
<1>t. ReplayTypes /\ ExactInv /\ AloneInv
  BY DEF ReplayInv
<1>1. PICK u, V : u = Viewed[1] /\ V = Viewed[2]
  OBVIOUS
<1>2. /\ IsState(panel) /\ rec = panel /\ rec.smooth \in BOOLEAN /\ IsSeq(drawn)
      /\ IsState(view) /\ Viewed = <<u, V>> /\ IsState(u) /\ IsSeq(V)
      /\ ~turned => Upright(rec) /\ Upright(view) /\ Upright(u)
  BY ONLY <1>t, <1>1, Zenon DEF ReplayTypes
<1>3. Recorder!Render(<<view, << >>>>, stream) = <<u, V>>
  BY <1>2, RenderIsFold DEF Viewed
<1>4. /\ shown' = drawn /\ drawn' = << >> /\ stream' = << >> /\ delivered' = arrives /\ lost' = (lost \/ ~arrives)
      /\ set' = {} /\ leaned' = <<FALSE, leaned[1]>>
      /\ mask' = mask /\ panel' = panel /\ rec' = rec /\ turned' = turned /\ foreign' = foreign
  BY ONLY Recorder!Frame(arrives) DEF Recorder!Frame
<1>5. IF arrives
      THEN view' = Recorder!Render(<<view, << >>>>, stream)[1] /\ seen' = Recorder!Render(<<view, << >>>>, stream)[2]
      ELSE view' = view /\ seen' = seen
  BY ONLY Recorder!Frame(arrives) DEF Recorder!Frame
<1>6. arrives => view' = u /\ seen' = V
  BY ONLY <1>3, <1>5
<1>7. ~arrives => view' = view /\ seen' = seen
  BY ONLY <1>5
<1>8. Viewed' = <<view', << >>>>
  <2>1. Viewed' = Playing!Fold(<<view', << >>>>, stream')
    BY DEF Viewed
  <2>2. \A p : Playing!Fold(p, << >>) = p
    BY FoldOne
  <2> QED BY ONLY <1>4, <2>1, <2>2, Zenon
<1>9. Viewed'[1] = view' /\ Viewed'[2] = << >>
  BY ONLY <1>8
<1>10. IsSeq(<< >>) /\ Through(mask, << >>) = << >>
  BY SeqEmpty, ThroughNone
<1>w. Whole' <=> Whole
  BY <1>4 DEF Whole, Recorder!Whole
<1>11. ReplayTypes'
  <2>1. IsState(view') /\ (~turned => Upright(view'))
    BY ONLY <1>2, <1>6, <1>7, Zenon
  <2>2. /\ IsState(panel') /\ rec' = panel' /\ rec'.smooth \in BOOLEAN
        /\ IsSeq(drawn') /\ IsSeq(stream') /\ IsSeq(shown') /\ IsSeq(Viewed'[2])
    BY ONLY <1>2, <1>4, <1>9, <1>10, Zenon
  <2>3. Viewed' = <<Viewed'[1], Viewed'[2]>> /\ IsState(Viewed'[1])
    BY ONLY <1>8, <1>9, <2>1, Zenon
  <2>4. ~turned' => Upright(rec') /\ Upright(view') /\ Upright(Viewed'[1])
    BY ONLY <1>2, <1>4, <1>9, <2>1, Zenon
  <2> QED BY ONLY <2>1, <2>2, <2>3, <2>4, Zenon DEF ReplayTypes
<1>12. ExactInv'
  <2> SUFFICES ASSUME ~lost', ~foreign', Whole'
               PROVE  /\ seen' = Through(mask', shown') /\ Viewed'[2] = Through(mask', drawn')
                      /\ Agree(mask', AllNames, Viewed'[1], rec')
    BY DEF ExactInv
  <2>1. arrives /\ ~lost /\ ~foreign /\ Whole
    BY <1>4, <1>w
  <2>2. V = Through(mask, drawn) /\ Agree(mask, AllNames, u, rec)
    BY ONLY <1>t, <1>1, <2>1, Zenon DEF ExactInv
  <2> QED BY ONLY <1>4, <1>6, <1>9, <1>10, <2>1, <2>2, Zenon
<1>13. AloneInv'
  <2> SUFFICES ASSUME ~turned', ~foreign', Whole'
               PROVE  /\ Viewed'[2] = Through(mask', drawn') /\ Agree(mask', set', Viewed'[1], rec')
                      /\ delivered' /\ ~leaned'[2] => seen' = Through(mask', shown')
    BY DEF AloneInv
  <2>1. ~turned /\ ~foreign /\ Whole
    BY <1>4, <1>w
  <2>2. Upright(rec) /\ Upright(view')
    BY ONLY <1>2, <1>6, <1>7, <2>1, Zenon
  <2>3. Agree(mask, {}, view', rec)
    BY ONLY <2>2 DEF Upright, Agree, AgreeOn
  <2>4. ~leaned[1] => V = Through(mask, drawn)
    BY ONLY <1>t, <1>1, <2>1, Zenon DEF AloneInv
  <2>5. leaned'[2] = leaned[1]
    BY ONLY <1>4
  <2>6. delivered' /\ ~leaned'[2] => seen' = Through(mask', shown')
    BY ONLY <1>4, <1>6, <2>4, <2>5, Zenon
  <2>7. Viewed'[2] = Through(mask', drawn') /\ Agree(mask', set', Viewed'[1], rec')
    BY ONLY <1>4, <1>9, <1>10, <2>3, Zenon
  <2> QED BY <2>6, <2>7
<1> QED BY <1>11, <1>12, <1>13 DEF ReplayInv

LEMMA ReplayStutters == ASSUME ReplayInv, UNCHANGED Recorder!vars PROVE ReplayInv'
<1>1. /\ mask' = mask /\ panel' = panel /\ rec' = rec /\ view' = view /\ drawn' = drawn /\ stream' = stream
      /\ shown' = shown /\ seen' = seen /\ delivered' = delivered /\ set' = set /\ leaned' = leaned /\ lost' = lost
      /\ turned' = turned /\ foreign' = foreign
  BY DEF Recorder!vars, Recorder!frameVars, Recorder!historyVars
<1>2. Viewed' = Viewed /\ (Whole' <=> Whole)
  BY <1>1 DEF Viewed, Whole, Recorder!Whole
<1> QED BY <1>1, <1>2 DEF ReplayInv, ReplayTypes, ExactInv, AloneInv

LEMMA ReplayInvariant == Recorder!Spec => []ReplayInv
<1>1. Recorder!Init => ReplayInv
  BY ReplayInit
<1>2. ReplayInv /\ [Recorder!Next]_(Recorder!vars) => ReplayInv'
  <2> SUFFICES ASSUME ReplayInv, [Recorder!Next]_(Recorder!vars) PROVE ReplayInv'
    OBVIOUS
  <2>1. CASE \E c \in Calls : Recorder!Call(c[1], c[2])
    BY <2>1, CallKeeps
  <2>2. CASE \E arrives \in BOOLEAN : Recorder!Frame(arrives)
    BY <2>2, FrameKeeps
  <2>3. CASE UNCHANGED Recorder!vars
    BY <2>3, ReplayStutters
  <2> QED BY <2>1, <2>2, <2>3 DEF Recorder!Next
<1> QED BY <1>1, <1>2, PTL DEF Recorder!Spec

(* What the viewer shows is what the recorded calls draw, as long as every   *)
(* frame reaches it; its drawing state is the recorder's                     *)
(* (DrawReplay.cpp, DRRender).                                               *)
THEOREM ReplayIsExact == Recorder!Spec => []ReplayExact
<1>1. ReplayInv => ReplayExact
  <2> SUFFICES ASSUME ReplayInv, ~lost, ~foreign, Whole
               PROVE  /\ seen = Recorder!Recorded(shown)
                      /\ stream = << >> /\ {"text", "style"} \subseteq mask /\ drawn = << >> /\ set = {} => view = rec
    BY DEF ReplayExact, Recorder!ReplayExact, Whole
  <2>1. /\ seen = Through(mask, shown) /\ Agree(mask, AllNames, Viewed[1], rec)
        /\ IsSeq(shown) /\ IsState(rec) /\ IsState(view)
    BY Zenon DEF ReplayInv, ReplayTypes, ExactInv
  <2>2. seen = Recorder!Recorded(shown)
    BY <2>1, RecordedIsThrough
  <2>3. ASSUME stream = << >>, {"text", "style"} \subseteq mask PROVE view = rec
    <3>1. Viewed = <<view, << >>>>
      BY <2>3, FoldOne DEF Viewed
    <3>2. Agree(mask, AllNames, view, rec)
      BY ONLY <2>1, <3>1
    <3>3. /\ view.x = rec.x /\ view.y = rec.y /\ view.ink = rec.ink /\ view.size = rec.size /\ view.wrap = rec.wrap
          /\ view.font = rec.font /\ view.stroke = rec.stroke /\ view.smooth = rec.smooth /\ view.w = rec.w
          /\ view.h = rec.h
      BY ONLY <2>3, <3>2 DEF Agree, AgreeOn, AllNames
    <3> QED BY ONLY <2>1, <3>3, Zenon DEF IsState
  <2> QED BY <2>2, <2>3
<1> QED BY <1>1, ReplayInvariant, PTL

(* A frame that sets all the state it uses is drawn right whatever was lost  *)
(* before it, on surfaces that are never turned.                             *)
THEOREM FramesStandAlone == Recorder!Spec => []FrameStandsAlone
<1>1. ReplayInv => FrameStandsAlone
  <2> SUFFICES ASSUME ReplayInv, delivered, ~leaned[2], ~turned, ~foreign, Whole
               PROVE  seen = Recorder!Recorded(shown)
    BY DEF FrameStandsAlone, Recorder!FrameStandsAlone, Whole
  <2>1. seen = Through(mask, shown) /\ IsSeq(shown)
    BY Zenon DEF ReplayInv, ReplayTypes, AloneInv
  <2> QED BY <2>1, RecordedIsThrough
<1> QED BY <1>1, ReplayInvariant, PTL

-----------------------------------------------------------------------------
(* The cutters of byte streams.  Bad is an offset at which no unit begins,    *)
(* Piece what the units from an offset are, those from later offsets being f. *)
Header == Stream!Header
Bad(s, i) == Stream!At(s, i) # Magic \/ Stream!Rest(s, i) > MaxRest
Piece(f, s, i) ==
    IF Len(s) - i < Header THEN << >>
    ELSE IF Bad(s, i) THEN f[i + 1]
    ELSE IF Len(s) - i < Header + Stream!Rest(s, i) THEN << >>
    ELSE <<Stream!Unit(s, i)>> \o f[i + Header + Stream!Rest(s, i)]
IsCut(f, s) == f = [i \in 0 .. Len(s) |-> Piece(f, s, i)]
Pieces == Seq(Seq(Nat))

LEMMA CutIsChosen == ASSUME NEW s PROVE Stream!CutFrom(s) = CHOOSE f : IsCut(f, s)
BY DEF Stream!CutFrom, IsCut, Piece, Bad, Header

LEMMA HeaderIs == Len(Magic) \in Nat \ {0} /\ Header = Len(Magic) + 1
BY FramingConstants DEF Header, Stream!Header

(* A piece is made from later ones only. *)
LEMMA PieceLooksAhead ==
    ASSUME NEW s \in Seq(Nat), NEW i \in 0 .. Len(s), NEW f, NEW g,
           \A j \in (i + 1) .. Len(s) : f[j] = g[j]
    PROVE  Piece(f, s, i) = Piece(g, s, i)
<1>1. Len(s) \in Nat /\ Header \in Nat /\ Header > 1
  BY HeaderIs
<1>2. CASE Len(s) - i < Header
  BY <1>2 DEF Piece
<1>3. CASE Len(s) - i >= Header
  <2>1. i + 1 \in (i + 1) .. Len(s) /\ i + Header \in 1 .. Len(s)
    BY <1>1, <1>3
  <2>2. Stream!Rest(s, i) \in Nat
    BY <2>1 DEF Stream!Rest, Header
  <2>3. Len(s) - i >= Header + Stream!Rest(s, i) => i + Header + Stream!Rest(s, i) \in (i + 1) .. Len(s)
    BY <1>1, <2>2
  <2> HIDE DEF Header
  <2> QED BY <1>1, <2>1, <2>2, <2>3 DEF Piece
<1> QED BY <1>1, <1>2, <1>3

LEMMA CutExists ==
    ASSUME NEW s \in Seq(Nat)
    PROVE  \E f : IsCut(f, s)
<1> DEFINE Upto(f, n) == /\ f = [i \in 0 .. Len(s) |-> f[i]]
                         /\ \A i \in 0 .. Len(s) : i >= Len(s) - n => f[i] = Piece(f, s, i)
           T == {n \in Nat : \E f : Upto(f, n)}
<1>0. Len(s) \in Nat /\ Header \in Nat /\ Header > 1
  BY HeaderIs
<1>1. 0 \in T
  <2> DEFINE f == [i \in 0 .. Len(s) |-> << >>]
  <2>1. \A i \in 0 .. Len(s) : i >= Len(s) => f[i] = Piece(f, s, i)
    BY <1>0 DEF Piece
  <2>2. Upto(f, 0)
    BY <1>0, <2>1
  <2> QED BY <2>2
<1>2. ASSUME NEW n \in Nat, n \in T PROVE n + 1 \in T
  <2>1. PICK f : Upto(f, n)
    BY <1>2
  <2> DEFINE m == Len(s) - (n + 1)
             g == [i \in 0 .. Len(s) |-> IF i = m THEN Piece(f, s, i) ELSE f[i]]
  <2>2. ASSUME NEW i \in 0 .. Len(s), i >= m PROVE g[i] = Piece(g, s, i)
    <3>1. \A j \in (i + 1) .. Len(s) : f[j] = g[j]
      BY <1>0, <2>2
    <3>2. Piece(f, s, i) = Piece(g, s, i)
      BY <3>1, PieceLooksAhead
    <3>3. i # m => f[i] = Piece(f, s, i)
      BY <1>0, <2>1, <2>2
    <3> HIDE DEF m
    <3> QED BY <3>2, <3>3
  <2>3. g = [i \in 0 .. Len(s) |-> g[i]]
    OBVIOUS
  <2> HIDE DEF g
  <2>4. Upto(g, n + 1)
    BY <2>2, <2>3
  <2> QED BY <2>4
<1> HIDE DEF T
<1>3. Nat \subseteq T
  BY <1>1, <1>2, Writing!Induction
<1>4. PICK f : Upto(f, Len(s))
  BY <1>0, <1>3 DEF T
<1>5. \A i \in 0 .. Len(s) : f[i] = Piece(f, s, i)
  BY <1>0, <1>4
<1>6. IsCut(f, s)
  BY <1>4, <1>5 DEF IsCut
<1> QED BY <1>6

(* What the units from an offset are. *)
LEMMA CutRuns ==
    ASSUME NEW s \in Seq(Nat), NEW i \in 0 .. Len(s)
    PROVE  Stream!CutFrom(s)[i] = Piece(Stream!CutFrom(s), s, i)
<1> DEFINE f == Stream!CutFrom(s)
<1>1. IsCut(f, s)
  BY CutExists, CutIsChosen
<1> HIDE DEF f
<1> QED BY <1>1 DEF IsCut, f

LEMMA CutType ==
    ASSUME NEW s \in Seq(Nat)
    PROVE  \A i \in 0 .. Len(s) : Stream!CutFrom(s)[i] \in Pieces
<1> DEFINE f == Stream!CutFrom(s)
           T == {n \in Nat : \A i \in 0 .. Len(s) : i >= Len(s) - n => f[i] \in Pieces}
<1>0. Len(s) \in Nat /\ Header \in Nat /\ Header > 1
  BY HeaderIs
<1>1. \A i \in 0 .. Len(s) : f[i] = Piece(f, s, i)
  BY CutRuns
<1>2. << >> \in Pieces
  BY DEF Pieces
<1> HIDE DEF f
<1>3. 0 \in T
  <2>1. f[Len(s)] = Piece(f, s, Len(s))
    BY <1>0, <1>1
  <2>2. Piece(f, s, Len(s)) = << >>
    BY <1>0 DEF Piece
  <2>3. \A i \in 0 .. Len(s) : i >= Len(s) - 0 => i = Len(s)
    BY <1>0
  <2> QED BY <1>2, <2>1, <2>2, <2>3
<1>4. ASSUME NEW n \in Nat, n \in T PROVE n + 1 \in T
  <2> SUFFICES ASSUME NEW i \in 0 .. Len(s), i = Len(s) - (n + 1) PROVE f[i] \in Pieces
    BY <1>0, <1>4
  <2>1. \A j \in 0 .. Len(s) : j > i => f[j] \in Pieces
    BY <1>0, <1>4
  <2>0. f[i] = Piece(f, s, i)
    BY <1>1
  <2>2. CASE Len(s) - i < Header
    BY <2>0, <1>2, <2>2 DEF Piece
  <2>3. CASE Len(s) - i >= Header /\ Bad(s, i)
    <3>1. i + 1 \in 0 .. Len(s) /\ i + 1 > i
      BY <1>0, <2>3
    <3>2. ~(Len(s) - i < Header)
      BY <1>0, <2>3
    <3>3. f[i] = f[i + 1]
      BY <2>0, <2>3, <3>2 DEF Piece
    <3> QED BY <2>1, <3>1, <3>3
  <2>4. CASE Len(s) - i >= Header /\ ~Bad(s, i)
    <3>1. i + Header \in 1 .. Len(s)
      BY <1>0, <2>4
    <3>2. Stream!Rest(s, i) \in Nat
      BY <3>1 DEF Stream!Rest, Header
    <3> DEFINE k == i + Header + Stream!Rest(s, i)
    <3>3. CASE Len(s) - i < Header + Stream!Rest(s, i)
      <4>1. ~(Len(s) - i < Header)
        BY <1>0, <2>4
      <4> QED BY <2>0, <1>2, <2>4, <3>3, <4>1 DEF Piece
    <3>4. CASE Len(s) - i >= Header + Stream!Rest(s, i)
      <4>1. k \in 0 .. Len(s) /\ k > i
        BY <1>0, <3>2, <3>4
      <4>2. f[i] = <<Stream!Unit(s, i)>> \o f[k]
        <5>1. ~(Len(s) - i < Header) /\ ~(Len(s) - i < Header + Stream!Rest(s, i))
          BY <1>0, <2>4, <3>2, <3>4
        <5> QED BY <2>0, <2>4, <5>1 DEF Piece
      <4>3. \A j \in (i + 1) .. k : s[j] \in Nat
        BY <1>0, <4>1
      <4>4. Stream!Unit(s, i) \in Seq(Nat)
        BY <1>0, <4>1, <4>3 DEF Stream!Unit, Header
      <4> HIDE DEF k
      <4>5. f[k] \in Pieces
        BY <2>1, <4>1
      <4> QED BY <4>2, <4>4, <4>5 DEF Pieces
    <3> QED BY <1>0, <3>2, <3>3, <3>4
  <2> QED BY <1>0, <2>2, <2>3, <2>4
<1> HIDE DEF T
<1>5. Nat \subseteq T
  BY <1>3, <1>4, Writing!Induction
<1>6. Len(s) \in T
  BY <1>0, <1>5
<1> QED BY <1>0, <1>6 DEF T, f

(* Where no unit begins the cutting goes on. *)
LEMMA CutSkips ==
    ASSUME NEW s \in Seq(Nat), NEW i \in 0 .. Len(s), NEW j \in i .. Len(s),
           \A k \in i .. (j - 1) : Len(s) - k < Header \/ Bad(s, k)
    PROVE  Stream!CutFrom(s)[i] = Stream!CutFrom(s)[j]
<1> DEFINE f == Stream!CutFrom(s)
           T == {n \in Nat : n <= j - i => f[j - n] = f[j]}
<1>0. Len(s) \in Nat /\ Header \in Nat /\ Header > 1
  BY HeaderIs
<1>1. \A k \in 0 .. Len(s) : f[k] = Piece(f, s, k)
  BY CutRuns
<1> HIDE DEF f
<1>2. 0 \in T
  BY <1>0
<1>3. ASSUME NEW n \in Nat, n \in T PROVE n + 1 \in T
  <2> DEFINE k == j - (n + 1)
  <2> SUFFICES ASSUME n + 1 <= j - i PROVE f[k] = f[j]
    OBVIOUS
  <2>1. k \in i .. (j - 1) /\ k + 1 = j - n /\ k \in 0 .. Len(s) /\ j \in 0 .. Len(s) /\ n <= j - i
    BY <1>0
  <2> HIDE DEF k
  <2>2. f[k + 1] = f[j]
    BY <1>3, <2>1
  <2>3. CASE Len(s) - k < Header
    <3>1. Len(s) - j < Header
      BY <1>0, <2>1, <2>3
    <3> QED BY <1>1, <2>1, <2>3, <3>1 DEF Piece
  <2>4. CASE ~(Len(s) - k < Header) /\ Bad(s, k)
    BY <1>1, <2>1, <2>2, <2>4 DEF Piece
  <2> QED BY <2>1, <2>3, <2>4
<1> HIDE DEF T
<1>4. j - i \in T
  <2>1. Nat \subseteq T
    BY <1>2, <1>3, Writing!Induction
  <2> QED BY <1>0, <2>1
<1>5. j - (j - i) = i
  BY <1>0
<1> QED BY <1>4, <1>5 DEF T, f

(* t goes on where s ends; what is waiting in the buffer is the end of fed.   *)
Extends(t, s) == t \in Seq(Nat) /\ Len(s) <= Len(t) /\ \A k \in 1 .. Len(s) : t[k] = s[k]
Base == Len(fed) - Len(buf)
Position == Base + pos

(* Whatever still comes, the units of the stream are those handed on and     *)
(* those that lie after the position; while the loop rests there are none.   *)
HandedOn == \A t \in Seq(Nat) : Extends(t, fed) => Stream!Cut(t) = units \o Stream!CutFrom(t)[Position]
BufferInv ==
    /\ buf \in Seq(Nat) /\ fed \in Seq(Nat) /\ pos \in 0 .. Len(buf) /\ Len(buf) <= Len(fed)
    /\ \A k \in 1 .. Len(buf) : buf[k] = fed[Base + k]
    /\ busy \in BOOLEAN /\ strayed \in BOOLEAN /\ units \in Pieces
FramingInv ==
    /\ BufferInv
    /\ ~strayed => HandedOn
    /\ ~strayed /\ ~busy => Stream!CutFrom(fed)[Position] = << >>

LEMMA BufferLens ==
    ASSUME BufferInv
    PROVE  /\ Len(buf) \in Nat /\ Len(fed) \in Nat /\ Base \in Nat /\ pos \in Nat /\ Position \in Nat
           /\ Position <= Len(fed) /\ Base + Len(buf) = Len(fed) /\ pos <= Len(buf)
BY DEF BufferInv, Base, Position

(* What is in the buffer is in every stream that goes on from fed. *)
LEMMA BufferIn ==
    ASSUME BufferInv, NEW t \in Seq(Nat), Extends(t, fed)
    PROVE  /\ Len(t) \in Nat /\ Len(t) >= Len(fed)
           /\ \A k \in 1 .. Len(buf) : t[Base + k] = buf[k]
<1>1. ASSUME NEW k \in 1 .. Len(buf) PROVE t[Base + k] = buf[k]
  <2>1. Base + k \in 1 .. Len(fed)
    BY BufferLens
  <2> QED BY <2>1 DEF Extends, BufferInv
<1> QED BY <1>1 DEF Extends

LEMMA SamePiece ==
    ASSUME BufferInv, NEW t \in Seq(Nat), Extends(t, fed), NEW i \in Nat, NEW n \in Nat, i + n <= Len(buf)
    PROVE  SubSeq(t, Base + i + 1, Base + i + n) = SubSeq(buf, i + 1, i + n)
<1>1. Len(buf) \in Nat /\ Base \in Nat /\ Len(t) \in Nat
  BY BufferLens, BufferIn
<1>2. ASSUME NEW k \in 1 .. n PROVE t[k + (Base + i + 1) - 1] = buf[k + (i + 1) - 1]
  <2>1. i + k \in 1 .. Len(buf) /\ Base + (i + k) = k + (Base + i + 1) - 1 /\ i + k = k + (i + 1) - 1
    BY <1>1
  <2> QED BY <2>1, BufferIn
<1>3. SubSeq(t, Base + i + 1, Base + i + n) = [k \in 1 .. n |-> t[k + (Base + i + 1) - 1]]
  <2>1. 1 + (Base + i + n) - (Base + i + 1) = n
    BY <1>1
  <2> QED BY <1>1, <2>1
<1>4. SubSeq(buf, i + 1, i + n) = [k \in 1 .. n |-> buf[k + (i + 1) - 1]]
  <2>1. 1 + (i + n) - (i + 1) = n
    BY <1>1
  <2> QED BY <1>1, <2>1
<1> QED BY <1>2, <1>3, <1>4

(* So the magic, the length and the unit at an offset of the buffer are there. *)
LEMMA SameThere ==
    ASSUME BufferInv, NEW t \in Seq(Nat), Extends(t, fed), NEW i \in Nat
    PROVE  /\ i + Len(Magic) <= Len(buf) => Stream!At(t, Base + i) = Stream!At(buf, i)
           /\ i + Header <= Len(buf) =>
                /\ Stream!Rest(t, Base + i) = Stream!Rest(buf, i)
                /\ Stream!Rest(buf, i) \in Nat
                /\ Bad(t, Base + i) <=> Bad(buf, i)
                /\ i + Header + Stream!Rest(buf, i) <= Len(buf) => Stream!Unit(t, Base + i) = Stream!Unit(buf, i)
<1>1. /\ Len(buf) \in Nat /\ Base \in Nat /\ Len(Magic) \in Nat \ {0} /\ Header = Len(Magic) + 1
      /\ Header \in Nat
  BY BufferLens, HeaderIs
<1>2. i + Len(Magic) <= Len(buf) => Stream!At(t, Base + i) = Stream!At(buf, i)
  BY <1>1, SamePiece DEF Stream!At
<1>3. ASSUME i + Header <= Len(buf)
      PROVE  /\ Stream!Rest(t, Base + i) = Stream!Rest(buf, i) /\ Stream!Rest(buf, i) \in Nat
             /\ Bad(t, Base + i) <=> Bad(buf, i)
             /\ i + Header + Stream!Rest(buf, i) <= Len(buf) => Stream!Unit(t, Base + i) = Stream!Unit(buf, i)
  <2>1. i + Header \in 1 .. Len(buf) /\ Base + (i + Header) = Base + i + Header
    BY <1>1, <1>3
  <2>2. t[Base + i + Header] = buf[i + Header] /\ buf[i + Header] \in Nat
    BY <2>1, BufferIn DEF BufferInv
  <2>3. Stream!Rest(t, Base + i) = Stream!Rest(buf, i) /\ Stream!Rest(buf, i) \in Nat
    BY <2>2 DEF Stream!Rest, Header
  <2>4. Bad(t, Base + i) <=> Bad(buf, i)
    BY <1>1, <1>2, <1>3, <2>3 DEF Bad
  <2>5. ASSUME i + Header + Stream!Rest(buf, i) <= Len(buf)
        PROVE  Stream!Unit(t, Base + i) = Stream!Unit(buf, i)
    <3> DEFINE n == Header + Stream!Rest(buf, i)
    <3>1. n \in Nat /\ i + n <= Len(buf)
      BY <1>1, <2>3, <2>5
    <3>2. SubSeq(t, Base + i + 1, Base + i + n) = SubSeq(buf, i + 1, i + n)
      BY <3>1, SamePiece
    <3>3. Base + i + n = Base + i + Header + Stream!Rest(t, Base + i) /\ i + n = i + Header + Stream!Rest(buf, i)
      <4> DEFINE r == Stream!Rest(buf, i)
      <4>1. r \in Nat /\ Stream!Rest(t, Base + i) = r
        BY <2>3
      <4> HIDE DEF r
      <4>2. Base + i + (Header + r) = Base + i + Header + r /\ i + (Header + r) = i + Header + r
        BY <1>1, <4>1
      <4> QED BY <4>1, <4>2 DEF r
    <3> QED BY <3>2, <3>3 DEF Stream!Unit, Header
  <2> QED BY <2>3, <2>4, <2>5
<1> QED BY <1>2, <1>3

LEMMA EndOf ==
    ASSUME NEW s \in Seq(Nat), NEW p \in 0 .. Len(s)
    PROVE  LET r == SubSeq(s, p + 1, Len(s))
           IN  r \in Seq(Nat) /\ Len(r) = Len(s) - p /\ \A k \in 1 .. Len(r) : r[k] = s[p + k]
<1> DEFINE r == SubSeq(s, p + 1, Len(s))
<1>1. p \in Nat /\ Len(s) \in Nat /\ Len(s) - p \in Nat
  OBVIOUS
<1>2. r = [k \in 1 .. (Len(s) - p) |-> s[k + (p + 1) - 1]]
  BY <1>1
<1>3. \A k \in 1 .. (Len(s) - p) : k + (p + 1) - 1 = p + k /\ s[p + k] \in Nat
  BY <1>1
<1> QED BY <1>1, <1>2, <1>3

(* Moving on to an offset, and dropping what lies before it or not. *)
LEMMA MoveKeeps ==
    ASSUME BufferInv, NEW p \in 0 .. Len(buf), Stream!Move(p),
           fed' = fed, busy' \in BOOLEAN, strayed' \in BOOLEAN, units' \in Pieces
    PROVE  BufferInv' /\ Position' = Base + p
<1>1. Len(buf) \in Nat /\ Base \in Nat /\ Len(fed) \in Nat /\ Base + Len(buf) = Len(fed) /\ p \in Nat
  BY BufferLens
<1>2. CASE buf' = << >> /\ pos' = 0 /\ p >= Len(buf)
  <2>1. Base' = Len(fed) /\ Position' = Base + p /\ Len(buf') = 0
    BY <1>1, <1>2 DEF Base, Position
  <2> QED BY <1>1, <1>2, <2>1 DEF BufferInv
<1>3. CASE buf' = SubSeq(buf, p + 1, Len(buf)) /\ pos' = 0
  <2>1. /\ buf' \in Seq(Nat) /\ Len(buf') = Len(buf) - p
        /\ \A k \in 1 .. Len(buf') : buf'[k] = buf[p + k]
    BY <1>3, EndOf DEF BufferInv
  <2>2. Base' = Base + p /\ Position' = Base + p
    <3>1. Base' = Len(fed) - (Len(buf) - p)
      BY <2>1 DEF Base
    <3>2. Len(fed) - (Len(buf) - p) = Base + p
      BY <1>1
    <3>3. Position' = Base' + 0
      BY <1>3 DEF Position
    <3> QED BY <1>1, <3>1, <3>2, <3>3
  <2>3. ASSUME NEW k \in 1 .. Len(buf') PROVE buf'[k] = fed[Base' + k]
    <3>1. p + k \in 1 .. Len(buf) /\ Base + (p + k) = Base' + k
      BY <1>1, <2>1, <2>2
    <3> QED BY <2>1, <3>1 DEF BufferInv
  <2>4. pos' \in 0 .. Len(buf') /\ Len(buf') <= Len(fed')
    BY <1>1, <1>3, <2>1
  <2>5. fed' \in Seq(Nat)
    BY DEF BufferInv
  <2> QED BY <2>1, <2>2, <2>3, <2>4, <2>5 DEF BufferInv
<1>4. CASE buf' = buf /\ pos' = p
  BY <1>1, <1>4 DEF BufferInv, Base, Position
<1> QED BY <1>2, <1>3, <1>4 DEF Stream!Move, Stream!Compact

(* The first magic after an offset, if there is one. *)
LEMMA LeastIs ==
    ASSUME NEW S \in SUBSET Nat, S # {}
    PROVE  \E i \in S : \A j \in S : i <= j
<1> SUFFICES ASSUME \A i \in S : \E j \in S : j < i PROVE FALSE
  OBVIOUS
<1> DEFINE T == {n \in Nat : \A m \in 0 .. n : m \notin S}
<1>1. 0 \in T
  OBVIOUS
<1>2. ASSUME NEW n \in Nat, n \in T PROVE n + 1 \in T
  <2>1. n + 1 \notin S
    BY <1>2
  <2>2. \A m \in 0 .. (n + 1) : m = n + 1 \/ m \in 0 .. n
    BY <1>2
  <2> QED BY <1>2, <2>1, <2>2
<1>3. \A n \in Nat : n \in T => n \notin S
  OBVIOUS
<1> HIDE DEF T
<1>4. Nat \subseteq T
  BY <1>1, <1>2, Writing!Induction
<1> QED BY <1>3, <1>4

LEMMA FoundIs ==
    ASSUME BufferInv
    PROVE  LET p == Stream!FindPattern(pos + 1)
           IN  /\ p \in 0 .. Len(buf)
               /\ p < Len(buf) =>
                    /\ p \in (pos + 1) .. (Len(buf) - Len(Magic))
                    /\ \A k \in (pos + 1) .. (p - 1) : Stream!At(buf, k) # Magic
               /\ p = Len(buf) => \A k \in (pos + 1) .. (Len(buf) - Len(Magic)) : Stream!At(buf, k) # Magic
<1> DEFINE p == Stream!FindPattern(pos + 1)
           F == Stream!Found(pos + 1)
<1>1. Len(buf) \in Nat /\ pos \in Nat /\ Len(Magic) \in Nat \ {0}
  BY BufferLens, HeaderIs
<1>2. \A k : k \in F <=> k \in (pos + 1) .. (Len(buf) - Len(Magic)) /\ Stream!At(buf, k) = Magic
  BY DEF Stream!Found
<1>3. p = IF F = {} THEN Len(buf) ELSE CHOOSE i \in F : \A j \in F : i <= j
  BY DEF Stream!FindPattern
<1> HIDE DEF p, F
<1> DEFINE First == /\ p \in 0 .. Len(buf)
                    /\ p < Len(buf) =>
                         /\ p \in (pos + 1) .. (Len(buf) - Len(Magic))
                         /\ \A k \in (pos + 1) .. (p - 1) : Stream!At(buf, k) # Magic
                    /\ p = Len(buf) =>
                         \A k \in (pos + 1) .. (Len(buf) - Len(Magic)) : Stream!At(buf, k) # Magic
<1>4. ASSUME F = {} PROVE First
  BY <1>1, <1>2, <1>3, <1>4
<1>5. ASSUME F # {} PROVE First
  <2>1. F \in SUBSET Nat
    BY <1>1, <1>2
  <2>2. p \in F /\ \A j \in F : p <= j
    BY <1>3, <1>5, <2>1, LeastIs
  <2>3. p \in (pos + 1) .. (Len(buf) - Len(Magic)) /\ p < Len(buf) /\ p \in 0 .. Len(buf)
    BY <1>1, <1>2, <2>2
  <2>4. ASSUME NEW k \in (pos + 1) .. (p - 1) PROVE Stream!At(buf, k) # Magic
    <3>1. k \in (pos + 1) .. (Len(buf) - Len(Magic)) /\ ~(p <= k)
      BY <1>1, <2>3
    <3> QED BY <1>2, <2>2, <3>1
  <2> QED BY <1>1, <2>3, <2>4
<1> QED BY <1>4, <1>5 DEF p

(* What the tests of the loop say of every stream that goes on from fed.     *)
LEMMA WholeSays ==
    ASSUME BufferInv, Stream!There = "whole"
    PROVE  /\ pos + Header <= Len(buf) /\ ~Bad(buf, pos)
           /\ pos + Header + Stream!Rest(buf, pos) <= Len(buf)
<1>1. Len(buf) \in Nat /\ pos \in Nat /\ Header \in Nat
  BY BufferLens, HeaderIs
<1>2. Stream!FrameThere = "whole"
  BY DEF Stream!There, Stream!RecordThere
<1>3. Len(buf) - pos >= Header /\ ~Bad(buf, pos) /\ ~(Len(buf) - pos < Header + Stream!Rest(buf, pos))
  BY <1>1, <1>2 DEF Stream!FrameThere, Stream!Avail, Bad, Header
<1>4. pos + Header \in 1 .. Len(buf)
  BY <1>1, <1>3, HeaderIs
<1>5. Stream!Rest(buf, pos) \in Nat
  BY <1>4 DEF Stream!Rest, Header, BufferInv
<1> QED BY <1>1, <1>3, <1>5

LEMMA MoreSays ==
    ASSUME BufferInv, Stream!There = "more"
    PROVE  \/ Len(buf) - pos < Header
           \/ /\ pos + Header <= Len(buf) /\ ~Bad(buf, pos)
              /\ Len(buf) - pos < Header + Stream!Rest(buf, pos)
<1>1. Len(buf) \in Nat /\ pos \in Nat /\ Header \in Nat /\ Header > 1
  BY BufferLens, HeaderIs
<1>2. CASE Stream!FrameThere = "more"
  BY <1>1, <1>2 DEF Stream!FrameThere, Stream!Avail, Bad, Header
<1>3. CASE Len(buf) - pos = 0
  BY <1>1, <1>3
<1> QED BY <1>1, <1>2, <1>3 DEF Stream!There, Stream!RecordThere, Stream!Avail

LEMMA BadSays ==
    ASSUME BufferInv, Stream!There = "bad", NEW t \in Seq(Nat), Extends(t, fed)
    PROVE  Len(t) - Position < Header \/ Bad(t, Position)
<1>1. /\ Len(buf) \in Nat /\ pos \in Nat /\ Header \in Nat /\ Len(t) \in Nat /\ Base \in Nat
      /\ pos <= Len(buf) /\ Len(Magic) \in Nat \ {0} /\ Header = Len(Magic) + 1
  BY BufferLens, BufferIn, HeaderIs
<1>2. CASE Stream!FrameThere = "bad"
  <2>1. Len(buf) - pos >= Header /\ Bad(buf, pos)
    BY <1>1, <1>2 DEF Stream!FrameThere, Stream!Avail, Bad, Header
  <2>2. pos + Header <= Len(buf)
    BY <1>1, <2>1
  <2> QED BY <1>1, <2>1, <2>2, SameThere DEF Position
<1>3. ASSUME Stream!FrameThere # "bad", ~(Len(t) - Position < Header), Stream!At(t, Position) = Magic
      PROVE  FALSE
  <2> DEFINE have == IF Len(buf) - pos < Len(Magic) THEN Len(buf) - pos ELSE Len(Magic)
  <2>1. Len(buf) - pos > 0 /\ SubSeq(buf, pos + 1, pos + have) # SubSeq(Magic, 1, have)
    <3>1. Stream!RecordThere = "bad"
      BY <1>3 DEF Stream!There
    <3> QED BY <1>1, <1>3, <3>1 DEF Stream!RecordThere, Stream!Avail
  <2>2. have \in 1 .. Len(Magic) /\ pos + have <= Len(buf) /\ have \in Nat
    BY <1>1, <2>1
  <2> HIDE DEF have
  <2>3. SubSeq(t, Base + pos + 1, Base + pos + have) = SubSeq(buf, pos + 1, pos + have)
    BY <1>1, <2>2, SamePiece
  <2>4. Magic = [k \in 1 .. Len(Magic) |-> t[k + Position]]
    <3>1. Position \in Nat /\ Position + Len(Magic) <= Len(t)
      BY <1>1, <1>3, BufferLens
    <3>2. Magic = SubSeq(t, Position + 1, Position + Len(Magic))
      BY <1>3 DEF Stream!At
    <3>3. 1 + (Position + Len(Magic)) - (Position + 1) = Len(Magic)
          /\ \A k \in 1 .. Len(Magic) : k + (Position + 1) - 1 = k + Position
      BY <1>1, <3>1
    <3> DEFINE m == Len(Magic)
    <3>4. m \in Nat /\ 1 + (Position + m) - (Position + 1) = m
          /\ \A k \in 1 .. m : k + (Position + 1) - 1 = k + Position
      BY <1>1, <3>3
    <3> HIDE DEF m
    <3>5. SubSeq(t, Position + 1, Position + m) = [k \in 1 .. m |-> t[k + Position]]
      BY <3>1, <3>4
    <3> QED BY <3>2, <3>5 DEF m
  <2>5. SubSeq(Magic, 1, have) = SubSeq(t, Position + 1, Position + have)
    <3>1. \A k \in 1 .. have : k \in 1 .. Len(Magic)
      BY <1>1, <2>2
    <3>2. SubSeq(Magic, 1, have) = [k \in 1 .. have |-> Magic[k]]
      BY <1>1, <2>2
    <3>3. Position \in Nat
      BY BufferLens
    <3>4. SubSeq(t, Position + 1, Position + have) = [k \in 1 .. have |-> t[k + Position]]
      <4>1. 1 + (Position + have) - (Position + 1) = have
            /\ \A k \in 1 .. have : k + (Position + 1) - 1 = k + Position
        BY <2>2, <3>3
      <4> QED BY <2>2, <3>3, <4>1
    <3>5. \A k \in 1 .. have : Magic[k] = t[k + Position]
      BY <2>4, <3>1
    <3> QED BY <3>2, <3>4, <3>5
  <2> QED BY <2>1, <2>3, <2>5 DEF Position
<1> QED BY <1>2, <1>3 DEF Bad

LEMMA OneMore ==
    ASSUME NEW a \in Pieces, NEW u \in Seq(Nat), NEW r \in Pieces
    PROVE  a \o (<<u>> \o r) = Append(a, u) \o r
<1> DEFINE S == Seq(Nat)
<1>1. a \in Seq(S) /\ u \in S /\ r \in Seq(S)
  BY DEF Pieces
<1> HIDE DEF S
<1>2. <<u>> \in Seq(S) /\ Append(a, u) = a \o <<u>>
  BY <1>1, AppendIsConcat
<1> QED BY <1>1, <1>2, ConcatAssociative

(* Each step of the loop. *)
LEMMA DeliverKeeps ==
    ASSUME FramingInv, Stream!Deliver
    PROVE  FramingInv'
<1> DEFINE r == Stream!Rest(buf, pos)
           p == pos + Header + r
           unit == Stream!Unit(buf, pos)
<1>0. BufferInv
  BY DEF FramingInv
<1>1. /\ Len(buf) \in Nat /\ Len(fed) \in Nat /\ pos \in Nat /\ Base \in Nat /\ Header \in Nat
      /\ Position = Base + pos /\ Position \in Nat /\ Base + Len(buf) = Len(fed) /\ pos <= Len(buf)
  BY <1>0, BufferLens, HeaderIs DEF Position
<1>2. pos + Header <= Len(buf) /\ ~Bad(buf, pos) /\ p <= Len(buf)
  BY <1>0, WholeSays DEF Stream!Deliver
<1>3. pos + Header \in 1 .. Len(buf)
  BY <1>1, <1>2, HeaderIs
<1>4. r \in Nat
  BY <1>0, <1>3 DEF Stream!Rest, Header, BufferInv
<1> HIDE DEF r
<1>5. p \in 0 .. Len(buf)
  BY <1>1, <1>2, <1>4
<1>6. unit \in Seq(Nat)
  <2>1. \A k \in (pos + 1) .. p : buf[k] \in Nat
    BY <1>0, <1>1, <1>5 DEF BufferInv
  <2>2. unit = SubSeq(buf, pos + 1, p)
    BY DEF Stream!Unit, r, Header
  <2> QED BY <1>1, <1>5, <2>1, <2>2
<1> HIDE DEF unit
<1>7. units \in Pieces /\ units' = Append(units, unit) /\ units' \in Pieces
  <2>1. units' = Append(units, unit)
    BY DEF Stream!Deliver, unit
  <2> QED BY <1>0, <1>6, <2>1 DEF BufferInv, Pieces
<1>8. /\ Stream!Move(p) /\ fed' = fed /\ strayed' = strayed /\ busy' = busy /\ busy
  BY DEF Stream!Deliver, r, p, Header
<1> HIDE DEF p
<1>9. BufferInv' /\ Position' = Base + p
  BY <1>0, <1>5, <1>7, <1>8, MoveKeeps DEF BufferInv
<1>10. ASSUME ~strayed, NEW t \in Seq(Nat), Extends(t, fed)
       PROVE  Stream!Cut(t) = units' \o Stream!CutFrom(t)[Position']
  <2> DEFINE f == Stream!CutFrom(t)
  <2>1. Len(t) \in Nat /\ Len(t) >= Len(fed)
    BY <1>0, <1>10, BufferIn
  <2>2. Stream!Cut(t) = units \o f[Position]
    BY <1>10 DEF FramingInv, HandedOn
  <2>3. Position \in 0 .. Len(t) /\ Position' \in 0 .. Len(t)
    BY <1>1, <1>5, <1>9, <2>1
  <2>4. f[Position] = Piece(f, t, Position) /\ f[Position'] \in Pieces
    BY <2>3, CutRuns, CutType
  <2>5. /\ Stream!Rest(t, Position) = r /\ ~Bad(t, Position) /\ Stream!Unit(t, Position) = unit
    BY <1>0, <1>1, <1>2, <1>10, SameThere DEF r, p, unit
  <2>6. Position' = Position + Header + r
    BY <1>1, <1>4, <1>9 DEF p
  <2> HIDE DEF f
  <2>7. ~(Len(t) - Position < Header) /\ ~(Len(t) - Position < Header + r)
    <3>1. pos + Header + r <= Len(buf)
      BY <1>2 DEF p
    <3> QED BY <1>1, <1>4, <2>1, <3>1
  <2>8. f[Position] = <<unit>> \o f[Position']
    BY <2>4, <2>5, <2>6, <2>7 DEF Piece
  <2>9. units \o (<<unit>> \o f[Position']) = Append(units, unit) \o f[Position']
    BY <1>6, <1>7, <2>4, OneMore
  <2> QED BY <1>7, <2>2, <2>8, <2>9 DEF f
<1>11. ~strayed' => HandedOn'
  BY <1>8, <1>10 DEF HandedOn, Extends
<1> QED BY <1>8, <1>9, <1>11 DEF FramingInv

LEMMA LostKeeps ==
    ASSUME FramingInv, Stream!Lost
    PROVE  FramingInv'
<1> DEFINE p == Stream!AfterBad
           q == Stream!FindPattern(pos + 1)
           m == Len(Magic)
<1>0. BufferInv
  BY DEF FramingInv
<1>1. /\ Len(buf) \in Nat /\ Len(fed) \in Nat /\ pos \in Nat /\ Base \in Nat /\ Header \in Nat
      /\ Position = Base + pos /\ Position \in Nat /\ Base + Len(buf) = Len(fed) /\ pos <= Len(buf)
      /\ m \in Nat \ {0} /\ Header = m + 1
  BY <1>0, BufferLens, HeaderIs DEF Position
<1>2. /\ q \in 0 .. Len(buf)
      /\ q < Len(buf) =>
           /\ q \in (pos + 1) .. (Len(buf) - m)
           /\ \A k \in (pos + 1) .. (q - 1) : Stream!At(buf, k) # Magic
      /\ q = Len(buf) => \A k \in (pos + 1) .. (Len(buf) - m) : Stream!At(buf, k) # Magic
  BY <1>0, FoundIs
<1>3. /\ Stream!Move(p) /\ fed' = fed /\ units' = units /\ busy' = (q < Len(buf) /\ p < Len(buf))
      /\ strayed' = (strayed \/ p < pos \/ (cutter = "host" /\ p = Len(buf)))
      /\ Stream!There = "bad"
  BY DEF Stream!Lost
<1>4. \/ cutter = "host" /\ p = Len(buf)
      \/ q < Len(buf) /\ p = q
      \/ ~(q < Len(buf)) /\ Len(buf) > m - 1 /\ p = Len(buf) - (m - 1)
      \/ ~(q < Len(buf)) /\ ~(Len(buf) > m - 1) /\ p = pos
  BY DEF Stream!AfterBad, Stream!Resync, Stream!KeepTail
<1> HIDE DEF p, q, m
<1>5. p \in 0 .. Len(buf)
  BY <1>1, <1>2, <1>4
<1>6. busy' \in BOOLEAN /\ strayed' \in BOOLEAN /\ units' \in Pieces
  BY <1>0, <1>3 DEF BufferInv
<1>7. BufferInv' /\ Position' = Base + p
  BY <1>0, <1>3, <1>5, <1>6, MoveKeeps
<1>8. ASSUME ~strayed' PROVE ~strayed /\ p >= pos /\ ~(cutter = "host" /\ p = Len(buf))
  <2>1. ~(strayed \/ p < pos \/ (cutter = "host" /\ p = Len(buf)))
    BY <1>3, <1>8, Zenon
  <2> QED BY <1>1, <1>5, <2>1
<1>9. ASSUME ~strayed', NEW t \in Seq(Nat), Extends(t, fed)
      PROVE  Stream!Cut(t) = units' \o Stream!CutFrom(t)[Position']
  <2>1. Len(t) \in Nat /\ Len(t) >= Len(fed)
    BY <1>0, <1>9, BufferIn
  <2>2. Position \in 0 .. Len(t) /\ Position' \in Position .. Len(t)
    BY <1>1, <1>5, <1>7, <1>8, <1>9, <2>1
  <2>3. ASSUME NEW k \in Position .. (Position' - 1) PROVE Len(t) - k < Header \/ Bad(t, k)
    <3>1. CASE k = Position
      BY <1>0, <1>3, <1>9, <3>1, BadSays
    <3>2. CASE k # Position
      <4> DEFINE i == k - Base
      <4>1. i \in Nat /\ i \in (pos + 1) .. (p - 1) /\ k = Base + i
        BY <1>1, <1>5, <1>7, <2>2, <3>2
      <4> HIDE DEF i
      <4>2. i \in (pos + 1) .. (Len(buf) - m) /\ Stream!At(buf, i) # Magic
        BY <1>1, <1>2, <1>4, <1>8, <1>9, <4>1
      <4>3. i + m <= Len(buf)
        BY <1>1, <4>1, <4>2
      <4>4. Stream!At(t, k) # Magic
        BY <1>0, <1>9, <4>1, <4>2, <4>3, SameThere DEF m
      <4> QED BY <4>4 DEF Bad
    <3> QED BY <3>1, <3>2
  <2>4. Stream!CutFrom(t)[Position] = Stream!CutFrom(t)[Position']
    BY <2>2, <2>3, CutSkips
  <2> QED BY <1>3, <1>8, <1>9, <2>4 DEF FramingInv, HandedOn
<1>10. ~strayed' => HandedOn'
  BY <1>3, <1>9 DEF HandedOn, Extends
<1>11. ASSUME ~strayed', ~busy' PROVE Stream!CutFrom(fed)[Position'] = << >>
  <2>1. Len(buf) - p < Header
    <3>1. ~(q < Len(buf) /\ p < Len(buf))
      BY <1>3, <1>11, Zenon
    <3>2. q < Len(buf) => q <= Len(buf) - m
      BY <1>1, <1>2
    <3>3. ~(cutter = "host" /\ p = Len(buf))
      BY <1>8, <1>11
    <3> QED BY <1>1, <1>4, <1>5, <3>1, <3>2, <3>3
  <2>2. Position' \in 0 .. Len(fed) /\ Len(fed) - Position' < Header
    BY <1>1, <1>5, <1>7, <2>1
  <2>3. fed \in Seq(Nat)
    BY <1>0 DEF BufferInv
  <2> QED BY <2>2, <2>3, CutRuns DEF Piece
<1> QED BY <1>3, <1>7, <1>10, <1>11 DEF FramingInv

LEMMA WaitKeeps ==
    ASSUME FramingInv, Stream!Wait
    PROVE  FramingInv'
<1>0. BufferInv
  BY DEF FramingInv
<1>1. /\ Len(buf) \in Nat /\ Len(fed) \in Nat /\ pos \in Nat /\ Base \in Nat /\ Header \in Nat
      /\ Position = Base + pos /\ Position \in 0 .. Len(fed) /\ Base + Len(buf) = Len(fed)
      /\ pos \in 0 .. Len(buf)
  BY <1>0, BufferLens, HeaderIs DEF Position
<1>2. /\ Stream!Move(pos) /\ fed' = fed /\ units' = units /\ strayed' = strayed /\ busy' = FALSE
      /\ Stream!There = "more"
  BY DEF Stream!Wait
<1>3. BufferInv' /\ Position' = Position
  BY <1>0, <1>1, <1>2, MoveKeeps DEF BufferInv
<1>4. ~strayed' => HandedOn'
  BY <1>2, <1>3 DEF FramingInv, HandedOn, Extends
<1>5. Stream!CutFrom(fed)[Position] = << >>
  <2>1. fed \in Seq(Nat) /\ Extends(fed, fed)
    BY <1>0, <1>1 DEF BufferInv, Extends
  <2>2. Stream!CutFrom(fed)[Position] = Piece(Stream!CutFrom(fed), fed, Position)
    BY <1>1, <2>1, CutRuns
  <2>3. CASE Len(buf) - pos < Header
    <3>1. Len(fed) - Position < Header
      BY <1>1, <2>3
    <3> QED BY <2>2, <3>1 DEF Piece
  <2>4. CASE /\ pos + Header <= Len(buf) /\ ~Bad(buf, pos)
             /\ Len(buf) - pos < Header + Stream!Rest(buf, pos)
    <3>1. Stream!Rest(fed, Position) = Stream!Rest(buf, pos) /\ ~Bad(fed, Position)
      BY <1>0, <1>1, <2>1, <2>4, SameThere
    <3>2. Len(fed) - Position = Len(buf) - pos
      BY <1>1
    <3> QED BY <2>2, <2>4, <3>1, <3>2 DEF Piece
  <2> QED BY <1>0, <1>2, <2>3, <2>4, MoreSays
<1> QED BY <1>2, <1>3, <1>4, <1>5 DEF FramingInv

LEMMA FeedKeeps ==
    ASSUME FramingInv, NEW chunk \in Stream!Chunks, Stream!Feed(chunk)
    PROVE  FramingInv'
<1>0. BufferInv
  BY DEF FramingInv
<1>1. Len(buf) \in Nat /\ Len(fed) \in Nat /\ pos \in Nat /\ Base \in Nat /\ Base + Len(buf) = Len(fed)
  BY <1>0, BufferLens
<1>2. chunk \in Seq(Nat)
  <2>1. PICK n \in 1 .. MaxChunk : chunk \in [1 .. n -> Bytes]
    BY DEF Stream!Chunks
  <2>2. n \in Nat /\ Bytes \subseteq Nat
    BY <2>1, FramingConstants
  <2>3. chunk \in [1 .. n -> Nat]
    BY <2>1, <2>2
  <2>4. \A f \in [1 .. n -> Nat] : f \in Seq(Nat)
    BY <2>2
  <2> QED BY <2>3, <2>4
<1>3. /\ buf' = buf \o chunk /\ fed' = fed \o chunk /\ pos' = pos /\ units' = units
      /\ strayed' = strayed /\ busy' = TRUE
  BY DEF Stream!Feed
<1>4. /\ buf' \in Seq(Nat) /\ fed' \in Seq(Nat)
      /\ Len(buf') = Len(buf) + Len(chunk) /\ Len(fed') = Len(fed) + Len(chunk) /\ Len(chunk) \in Nat
      /\ \A k \in 1 .. Len(buf) : buf'[k] = buf[k]
      /\ \A k \in 1 .. Len(chunk) : buf'[Len(buf) + k] = chunk[k] /\ fed'[Len(fed) + k] = chunk[k]
      /\ \A k \in 1 .. Len(fed) : fed'[k] = fed[k]
  <2>1. buf \in Seq(Nat) /\ fed \in Seq(Nat)
    BY <1>0 DEF BufferInv
  <2> QED BY <1>2, <1>3, <2>1
<1>5. Base' = Base /\ Position' = Position
  <2>1. Base' = Len(fed') - Len(buf')
    BY DEF Base
  <2>2. Base = Len(fed) - Len(buf)
    BY DEF Base
  <2>3. Base' = Base
    BY <1>1, <1>4, <2>1, <2>2
  <2> QED BY <1>3, <2>3 DEF Position
<1>6. ASSUME NEW k \in 1 .. Len(buf') PROVE buf'[k] = fed'[Base' + k]
  <2>0. k \in Nat /\ k >= 1 /\ k <= Len(buf) + Len(chunk)
    <3>1. k \in 1 .. (Len(buf) + Len(chunk))
      BY <1>4
    <3> QED BY <1>1, <1>4, <3>1
  <2>1. CASE k <= Len(buf)
    <3>1. k \in 1 .. Len(buf) /\ Base + k \in 1 .. Len(fed)
      BY <1>1, <2>0, <2>1
    <3> QED BY <1>0, <1>4, <1>5, <3>1 DEF BufferInv
  <2>2. CASE k > Len(buf)
    <3> DEFINE i == k - Len(buf)
    <3>1. i \in 1 .. Len(chunk) /\ k = Len(buf) + i
      BY <1>1, <1>4, <2>0, <2>2
    <3> HIDE DEF i
    <3>2. Base + (Len(buf) + i) = (Base + Len(buf)) + i
      BY <1>1, <3>1
    <3>3. Base' + k = Len(fed) + i
      BY <1>1, <1>5, <3>1, <3>2
    <3> QED BY <1>4, <3>1, <3>3
  <2> QED BY <1>1, <1>4, <2>1, <2>2
<1>7. BufferInv'
  <2>1. pos' \in 0 .. Len(buf') /\ Len(buf') <= Len(fed')
    BY <1>0, <1>1, <1>3, <1>4 DEF BufferInv
  <2> QED BY <1>0, <1>3, <1>4, <1>6, <2>1 DEF BufferInv
<1>8. ASSUME NEW t \in Seq(Nat), Extends(t, fed') PROVE Extends(t, fed)
  <2>1. Len(t) \in Nat /\ Len(fed) <= Len(t)
    BY <1>1, <1>4, <1>8 DEF Extends
  <2>2. \A k \in 1 .. Len(fed) : k \in 1 .. Len(fed')
    BY <1>1, <1>4
  <2> QED BY <1>4, <1>8, <2>1, <2>2 DEF Extends
<1>9. (~strayed => HandedOn) => (~strayed' => HandedOn')
  BY <1>3, <1>5, <1>8 DEF HandedOn, Extends
<1> QED BY <1>3, <1>7, <1>9 DEF FramingInv

(* Nothing was fed yet, at first or after a CLOSE. *)
LEMMA EmptyFits ==
    ASSUME buf = << >>, fed = << >>, units = << >>, pos = 0, busy = FALSE,
           strayed \in BOOLEAN
    PROVE  FramingInv
<1>1. Len(buf) = 0 /\ Len(fed) = 0 /\ Base = 0 /\ Position = 0
  BY DEF Base, Position
<1>2. BufferInv
  <2>1. << >> \in Seq(Nat) /\ << >> \in Pieces
    BY DEF Pieces
  <2>2. 1 .. Len(buf) = {}
    BY <1>1
  <2>3. pos \in 0 .. Len(buf) /\ Len(buf) <= Len(fed)
    BY <1>1
  <2>4. \A k \in 1 .. Len(buf) : buf[k] = fed[Base + k]
    BY <2>2, Zenon
  <2> QED BY <2>1, <2>3, <2>4, Zenon DEF BufferInv
<1>3. HandedOn
  <2> SUFFICES ASSUME NEW t \in Seq(Nat) PROVE Stream!Cut(t) = << >> \o Stream!CutFrom(t)[0]
    BY <1>1 DEF HandedOn
  <2>1. 0 \in 0 .. Len(t)
    OBVIOUS
  <2>2. Stream!CutFrom(t)[0] \in Pieces
    BY <2>1, CutType
  <2> QED BY <2>2 DEF Stream!Cut, Pieces
<1>4. Stream!CutFrom(fed)[Position] = << >>
  <2>1. fed \in Seq(Nat) /\ 0 \in 0 .. Len(fed) /\ Len(fed) - 0 < Header
    BY <1>1, HeaderIs
  <2> QED BY <1>1, <2>1, CutRuns DEF Piece
<1> QED BY <1>2, <1>3, <1>4 DEF FramingInv

LEMMA CloseKeeps ==
    ASSUME FramingInv, Stream!Close
    PROVE  FramingInv'
<1>1. /\ buf' = << >> /\ fed' = << >> /\ units' = << >> /\ pos' = 0 /\ busy' = FALSE
      /\ strayed' \in BOOLEAN
  BY DEF Stream!Close, FramingInv, BufferInv
<1>2. Base' = 0 /\ Position' = 0
  BY <1>1 DEF Base, Position
<1>3. BufferInv'
  <2>1. << >> \in Seq(Nat) /\ << >> \in Pieces
    BY DEF Pieces
  <2>2. Len(buf') = 0 /\ Len(fed') = 0 /\ 1 .. Len(buf') = {}
    BY <1>1
  <2>3. pos' \in 0 .. Len(buf') /\ Len(buf') <= Len(fed')
    BY <1>1, <2>2
  <2>4. \A k \in 1 .. Len(buf') : buf'[k] = fed'[Base' + k]
    BY <2>2, Zenon
  <2> QED BY <1>1, <2>1, <2>3, <2>4, Zenon DEF BufferInv
<1>4. HandedOn'
  <2> SUFFICES ASSUME NEW t \in Seq(Nat) PROVE Stream!Cut(t) = << >> \o Stream!CutFrom(t)[0]
    BY <1>1, <1>2 DEF HandedOn
  <2>1. 0 \in 0 .. Len(t)
    OBVIOUS
  <2>2. Stream!CutFrom(t)[0] \in Pieces
    BY <2>1, CutType
  <2> QED BY <2>2 DEF Stream!Cut, Pieces
<1>5. Stream!CutFrom(<< >>)[0] = << >>
  <2>1. << >> \in Seq(Nat) /\ 0 \in 0 .. Len(<< >>) /\ Len(<< >>) - 0 < Header
    BY HeaderIs
  <2> QED BY <2>1, CutRuns DEF Piece
<1> QED BY <1>1, <1>2, <1>3, <1>4, <1>5 DEF FramingInv

(* However the bytes are split over reads, and whatever lies between the     *)
(* units, those handed on are the units of the stream as a whole             *)
(* (FrameParser::feed, StreamAssembler::feed, _parse_rx).                     *)
THEOREM SplitsDoNotMatter == Stream!Spec => []ChunksDoNotMatter
<1>1. Stream!Init => FramingInv
  BY EmptyFits DEF Stream!Init
<1>2. FramingInv /\ [Stream!Next]_(Stream!vars) => FramingInv'
  <2> SUFFICES ASSUME FramingInv, [Stream!Next]_(Stream!vars) PROVE FramingInv'
    OBVIOUS
  <2>1. CASE UNCHANGED Stream!vars
    BY <2>1 DEF Stream!vars, FramingInv, BufferInv, HandedOn, Base, Position
  <2> QED BY <2>1, FeedKeeps, DeliverKeeps, LostKeeps, WaitKeeps, CloseKeeps DEF Stream!Next
<1>3. FramingInv => ChunksDoNotMatter
  <2> SUFFICES ASSUME FramingInv, ~busy, ~strayed PROVE units = Stream!Cut(fed)
    BY DEF ChunksDoNotMatter, Stream!ChunksDoNotMatter
  <2>1. fed \in Seq(Nat) /\ Extends(fed, fed) /\ units \in Pieces
    BY DEF FramingInv, BufferInv, Extends
  <2>2. Stream!Cut(fed) = units \o << >>
    BY <2>1 DEF FramingInv, HandedOn
  <2> QED BY <2>1, <2>2 DEF Pieces
<1> QED BY <1>1, <1>2, <1>3, PTL DEF Stream!Spec
=============================================================================
