----------------------------- MODULE UsbdProofs ------------------------------
(***************************************************************************)
(* Proofs about Usbd for any number of connections and frames, any size of *)
(* the rings, the payload and the messages, and any number of replugs:     *)
(* type correctness; the host gets a connection's bytes in order, none     *)
(* twice and none skipped; an application gets whole frames of the host,   *)
(* in order.                                                               *)
(***************************************************************************)
EXTENDS Usbd, SequenceTheorems, TLAPS

-----------------------------------------------------------------------------
(* Types, thread by thread. *)

ChannelTypes ==
    /\ active \in BOOLEAN /\ sock \in Clients \cup {NoClient}
    /\ txRing \in Seq(Bytes) /\ Len(txRing) <= RingSize
    /\ rxRing \in Seq(RxUnits) /\ Len(rxRing) <= RingSize
    /\ accepting \in {"idle", "answer", "announce", "spawn"}
ClientTypes ==
    /\ client \in [Clients -> {"new", "asking", "open", "closed"}]
    /\ inbox \in [Clients -> Seq(Seq(Bytes))] /\ written \in [Clients -> 0 .. MaxUnits]
DeliveryTypes ==
    /\ delivered \in [Clients -> Seq(Seq(RxUnits))] /\ taken \in [Clients -> Nat]
    /\ \A c \in Clients : Unread(c) \in 0 .. SocketSize
ReaderTypes ==
    /\ reader \in [Clients -> {"none", "read", "push", "done", "closing", "end"}]
    /\ held \in [Clients -> Seq(Bytes)]
SenderTypes ==
    /\ sender \in [Clients -> {"none", "idle", "asleep", "top", "send", "sendlast", "flush", "end", "lost"}]
    /\ cur \in [Clients -> Seq(Bytes)] /\ nxt \in [Clients -> Seq(Bytes)]
    /\ \A c \in Clients : Len(cur[c]) <= MaxPayload /\ Len(nxt[c]) <= MaxPayload
ForwardTypes ==
    /\ forwarder \in [Clients -> {"none", "idle", "asleep", "payload", "forward", "end", "lost"}]
    /\ plen \in [Clients -> 0 .. MaxLen] /\ rxbuf \in [Clients -> Seq(RxUnits)]
FrameOK(f) == f \in Frames /\ (f.flag = "data" => f.len # 0)
RxTypes ==
    /\ rx \in {"idle", "dispatch", "payload"} /\ seenActive \in BOOLEAN /\ stump \in BOOLEAN
    /\ FrameOK(frame)
    /\ rx = "payload" => frame.flag = "data"
UsbTypes ==
    /\ up \in BOOLEAN /\ hostSent \in 0 .. MaxFrames /\ replugs \in 0 .. MaxReplugs
    /\ usbIn \in Seq(Frames) /\ \A i \in DOMAIN usbIn : FrameOK(usbIn[i])
HostTypes == got \in [Clients -> Seq(Bytes)]
MishapTypes == mishaps \subseteq {"crowded", "overrun", "mixed", "replug"}

TypeInv ==
    /\ ChannelTypes /\ ClientTypes /\ DeliveryTypes /\ ReaderTypes /\ SenderTypes
    /\ ForwardTypes /\ RxTypes /\ UsbTypes /\ HostTypes /\ MishapTypes

-----------------------------------------------------------------------------
(* The connection that has the channel, and the threads of the others. *)

Uncrowded == "crowded" \notin mishaps

(* A client that was not accepted yet has nothing. *)
Fresh(c) ==
    /\ c # sock
    /\ reader[c] = "none" /\ sender[c] = "none" /\ forwarder[c] = "none"
    /\ held[c] = << >> /\ inbox[c] = << >> /\ got[c] = << >> /\ written[c] = 0
    /\ delivered[c] = << >>
NewInv == \A c \in Clients : client[c] = "new" => Fresh(c)

(* Threads begin once, with nothing in hand. *)
SpawnInv ==
    accepting # "idle" =>
        sock \in Clients /\ reader[sock] = "none" /\ sender[sock] = "none" /\ forwarder[sock] = "none"
HandInv ==
    \A c \in Clients :
        /\ reader[c] \in {"none", "read"} => held[c] = << >>
        /\ sender[c] \in {"none", "idle", "asleep"} => cur[c] = << >>
        /\ sender[c] \in {"none", "idle", "asleep", "top", "sendlast"} => nxt[c] = << >>

(* Nobody but the connection that has the channel acts on it. *)
Quiet(c) ==
    /\ reader[c] \in Over \/ Spins(c)
    /\ sender[c] \in Over
    /\ forwarder[c] \in Over
QuietInv == Uncrowded => \A c \in Clients : c # sock => Quiet(c)

-----------------------------------------------------------------------------
(* To the host: the bytes of s are those of client c after the first b. *)
Run(s, c, b) == \A i \in DOMAIN s : s[i] = <<c, b + i>>

Sending(c) == sender[c] \notin {"flush", "end", "lost"}
Reading(c) == reader[c] \in {"none", "read", "push"}

Sent(c) == Len(got[c])
InBuffers(c) == Sent(c) + Len(cur[c]) + Len(nxt[c])
InRing(c) == InBuffers(c) + Len(txRing)
Taken(c) == InRing(c) + Len(held[c])

(* Messages of client c that begin after the first b bytes and end with the  *)
(* first w.                                                                  *)
Start(m) == m[1][2] - 1
Messages(q, c, b, w) ==
    /\ \A j \in DOMAIN q : q[j] # << >> /\ Run(q[j], c, Start(q[j]))
    /\ q # << >> => Start(q[1]) = b /\ Start(q[Len(q)]) + Len(q[Len(q)]) = w
    /\ q = << >> => b = w
    /\ \A j \in DOMAIN q : j + 1 \in DOMAIN q => Start(q[j + 1]) = Start(q[j]) + Len(q[j])

(* What the host has, the sender holds, the ring holds, the reader holds and *)
(* the socket holds follow each other.  A sender after its loop sends what   *)
(* it has and no more.                                                       *)
ToHost(c) ==
    /\ Run(cur[c], c, Sent(c))
    /\ Sending(c) =>
           /\ Run(nxt[c], c, Sent(c) + Len(cur[c]))
           /\ Run(txRing, c, InBuffers(c))
           /\ Reading(c) =>
                  /\ Run(held[c], c, InRing(c))
                  /\ Messages(inbox[c], c, Taken(c), written[c])
ToHostInv == Uncrowded => \A c \in Clients : Run(got[c], c, 0) /\ (c = sock => ToHost(c))

(* The host hears of a connection before its threads begin. *)
KnownInv ==
    /\ "replug" \notin mishaps => up
    /\ mishaps = {} =>
           /\ accepting = "spawn" => sock \in announced
           /\ \A c \in Clients : sender[c] # "none" \/ got[c] # << >> => c \in announced

-----------------------------------------------------------------------------
(* To the application: frames in the order of their numbers. *)

Clean == mishaps \subseteq {"replug"}

(* A stretch of the ring: a unit is followed by the rest of its frame, that  *)
(* by the length of a later frame; only the last unit may lack what follows. *)
Rest(r, j) == r[j][3] - r[j][2]
Whole(r) ==
    \A j \in DOMAIN r :
        /\ Rest(r, j) \in Nat
        /\ \A d \in 1 .. Rest(r, j) : j + d \in DOMAIN r => r[j + d] = <<r[j][1], r[j][2] + d, r[j][3]>>
        /\ j # Len(r) => j + Rest(r, j) <= Len(r)
        /\ j + Rest(r, j) + 1 \in DOMAIN r =>
               r[j + Rest(r, j) + 1][2] = 0 /\ r[j][1] < r[j + Rest(r, j) + 1][1]
        /\ \A i \in DOMAIN r : i < j => r[i][1] <= r[j][1]
Complete(r) == r # << >> => Rest(r, Len(r)) = 0
Below(r, k) == \A j \in DOMAIN r : r[j][1] < k

(* The frames on the pipe and the one that is handled are numbered upwards.  *)
PipeInv ==
    /\ \A j \in DOMAIN usbIn :
           /\ usbIn[j].id \in 1 .. hostSent
           /\ rx # "idle" => frame.id < usbIn[j].id
           /\ \A i \in DOMAIN usbIn : i < j => usbIn[i].id < usbIn[j].id
    /\ rx # "idle" => frame.id \in 1 .. hostSent

(* The ring holds earlier ones.  Only while a frame's payload is being        *)
(* written is the last of them without it; its length may be gone already.   *)
RingInv ==
    /\ Whole(rxRing)
    /\ Below(rxRing, hostSent + 1)
    /\ rx = "dispatch" => Below(rxRing, frame.id)
    /\ \A i \in DOMAIN usbIn : Below(rxRing, usbIn[i].id)
    /\ rx # "payload" => Complete(rxRing)
    /\ rx = "payload" =>
           IF rxRing = << >> THEN sock \in Clients /\ forwarder[sock] = "payload" /\ plen[sock] = frame.len
           ELSE rxRing[Len(rxRing)] = <<frame.id, 0, frame.len>>

(* The forwarder stands between two frames or before the payload of one, or  *)
(* holds one.                                                                *)
ForwardInv ==
    sock \in Clients =>
        /\ forwarder[sock] \in {"none", "idle", "asleep", "forward"} /\ rxRing # << >> => rxRing[1][2] = 0
        /\ forwarder[sock] = "payload" =>
               IF rxRing = << >> THEN rx = "payload"
               ELSE rxRing[1][2] = 1 /\ rxRing[1][3] = plen[sock]

(* Every frame after number k is still to come.  What the client was given   *)
(* and what the forwarder holds comes before that.                           *)
Later(k) ==
    /\ \A j \in DOMAIN rxRing : k < rxRing[j][1]
    /\ rx # "idle" => k < frame.id
    /\ \A j \in DOMAIN usbIn : k < usbIn[j].id
    /\ k <= hostSent
IsFrame(m) == m = Units(m[1][1], m[1][3]) /\ m # << >>
GivenInv ==
    sock \in Clients =>
        /\ \A i \in DOMAIN delivered[sock] : Later(delivered[sock][i][1][1])
        /\ forwarder[sock] = "forward" =>
               /\ IsFrame(rxbuf[sock])
               /\ Later(rxbuf[sock][1][1])
               /\ \A i \in DOMAIN delivered[sock] : delivered[sock][i][1][1] < rxbuf[sock][1][1]
WholeInv ==
    \A c \in Clients : \A i \in DOMAIN delivered[c] :
        /\ IsFrame(delivered[c][i])
        /\ \A j \in DOMAIN delivered[c] : j < i => delivered[c][j][1][1] < delivered[c][i][1][1]

FromHostInv == Clean => PipeInv /\ RingInv /\ ForwardInv /\ GivenInv /\ WholeInv

(* The inductive invariant: what the host has needs no more than OutInv. *)
OutInv == TypeInv /\ NewInv /\ SpawnInv /\ HandInv /\ QuietInv /\ ToHostInv /\ KnownInv

IInv == OutInv /\ FromHostInv

-----------------------------------------------------------------------------
(* Sequences *)

(* Elements of a longer sequence. *)
LEMMA AppendElements ==
    ASSUME NEW S, NEW q \in Seq(S), NEW e \in S
    PROVE  /\ Append(q, e) \in Seq(S)
           /\ Append(q, e) # << >>
           /\ Len(q) \in Nat
           /\ DOMAIN q = 1 .. Len(q)
           /\ DOMAIN Append(q, e) = 1 .. (Len(q) + 1)
           /\ Len(Append(q, e)) = Len(q) + 1
           /\ \A i \in DOMAIN q : Append(q, e)[i] = q[i]
           /\ Append(q, e)[Len(q) + 1] = e
    OBVIOUS

(* Elements of a tail. *)
LEMMA TailElements ==
    ASSUME NEW S, NEW q \in Seq(S), q # << >>
    PROVE  /\ Tail(q) \in Seq(S)
           /\ Head(q) \in S
           /\ Head(q) = q[1]
           /\ 1 \in DOMAIN q
           /\ DOMAIN q = 1 .. Len(q)
           /\ Len(q) \in Nat \ {0}
           /\ DOMAIN Tail(q) = 1 .. (Len(q) - 1)
           /\ Len(Tail(q)) = Len(q) - 1
           /\ \A i \in DOMAIN Tail(q) : Tail(q)[i] = q[i + 1]
    OBVIOUS

(* Elements of two sequences one after the other. *)
LEMMA ConcatElements ==
    ASSUME NEW S, NEW q \in Seq(S), NEW r \in Seq(S)
    PROVE  /\ q \o r \in Seq(S)
           /\ Len(q) \in Nat /\ Len(r) \in Nat
           /\ DOMAIN q = 1 .. Len(q) /\ DOMAIN r = 1 .. Len(r)
           /\ Len(q \o r) = Len(q) + Len(r)
           /\ DOMAIN (q \o r) = 1 .. Len(q) + Len(r)
           /\ \A i \in DOMAIN q : (q \o r)[i] = q[i]
           /\ \A i \in DOMAIN r : (q \o r)[Len(q) + i] = r[i]
           /\ \A i \in DOMAIN (q \o r) : i \in DOMAIN q \/ (i - Len(q) \in DOMAIN r /\ (q \o r)[i] = r[i - Len(q)])
<1>1. /\ q \o r \in Seq(S) /\ Len(q \o r) = Len(q) + Len(r)
      /\ \A i \in 1 .. Len(q) + Len(r) : (q \o r)[i] = IF i <= Len(q) THEN q[i] ELSE r[i - Len(q)]
  BY ConcatProperties
<1>2. /\ Len(q) \in Nat /\ Len(r) \in Nat /\ DOMAIN q = 1 .. Len(q) /\ DOMAIN r = 1 .. Len(r)
      /\ DOMAIN (q \o r) = 1 .. Len(q \o r)
  BY <1>1
<1> QED BY <1>1, <1>2

(* A stretch of a queue. *)
LEMMA SubSeqElements ==
    ASSUME NEW S, NEW q \in Seq(S), NEW m \in Nat \ {0}, NEW n \in Nat, n <= Len(q), m <= n + 1
    PROVE  /\ SubSeq(q, m, n) \in Seq(S)
           /\ Len(SubSeq(q, m, n)) = n - m + 1
           /\ DOMAIN SubSeq(q, m, n) = 1 .. n - m + 1
           /\ \A i \in 1 .. n - m + 1 : m + i - 1 \in DOMAIN q /\ SubSeq(q, m, n)[i] = q[m + i - 1]
<1>1. DOMAIN q = 1 .. Len(q) /\ Len(q) \in Nat /\ \A i \in m .. n : q[i] \in S
  OBVIOUS
<1>2. /\ SubSeq(q, m, n) \in Seq(S)
      /\ Len(SubSeq(q, m, n)) = IF m <= n THEN n - m + 1 ELSE 0
      /\ \A i \in 1 .. n - m + 1 : SubSeq(q, m, n)[i] = q[m + i - 1]
  BY <1>1, SubSeqProperties
<1>3. DOMAIN SubSeq(q, m, n) = 1 .. Len(SubSeq(q, m, n))
  BY <1>2
<1> QED BY <1>1, <1>2, <1>3

(* RingBuffer::write takes the beginning of what it is given, and all of it  *)
(* if there is room.                                                         *)
LEMMA FitsElements ==
    ASSUME NEW S, NEW ring \in Seq(S), Len(ring) <= RingSize, NEW s \in Seq(S)
    PROVE  /\ Fits(ring, s) \in Seq(S)
           /\ Len(Fits(ring, s)) = Least(Len(s), RingSize - Len(ring))
           /\ Len(Fits(ring, s)) \in 0 .. Len(s)
           /\ Len(ring) + Len(Fits(ring, s)) <= RingSize
           /\ DOMAIN Fits(ring, s) = 1 .. Len(Fits(ring, s))
           /\ \A i \in DOMAIN Fits(ring, s) : i \in DOMAIN s /\ Fits(ring, s)[i] = s[i]
           /\ Len(Fits(ring, s)) >= Len(s) => Fits(ring, s) = s
<1>a. RingSize \in Nat /\ Len(ring) \in Nat /\ Len(s) \in Nat /\ DOMAIN s = 1 .. Len(s)
  BY ConstantsAssumption
<1> DEFINE n == Least(Len(s), RingSize - Len(ring))
<1>1. n \in Nat /\ n <= Len(s) /\ n + Len(ring) <= RingSize /\ 1 \in Nat \ {0} /\ 1 <= n + 1
  BY <1>a DEF Least
<1> HIDE DEF n
<1>2. /\ SubSeq(s, 1, n) \in Seq(S)
      /\ Len(SubSeq(s, 1, n)) = n - 1 + 1
      /\ DOMAIN SubSeq(s, 1, n) = 1 .. n - 1 + 1
      /\ \A i \in 1 .. n - 1 + 1 : 1 + i - 1 \in DOMAIN s /\ SubSeq(s, 1, n)[i] = s[1 + i - 1]
  BY <1>1, SubSeqElements
<1>3. Fits(ring, s) = SubSeq(s, 1, n)
  BY DEF Fits, n
<1>4. n >= Len(s) => SubSeq(s, 1, n) = s
  <2>1. SubSeq(s, 1, Len(s)) = s
    BY SubSeqFull
  <2>2. \A i, j \in Nat : i <= j /\ i >= j => i = j
    BY SMTT(30)
  <2>3. n >= Len(s) => n = Len(s)
    BY <2>2, <1>1, <1>a
  <2> QED BY <2>1, <2>3
<1>5. n = Least(Len(s), RingSize - Len(ring))
  BY DEF n
<1>6. /\ Len(SubSeq(s, 1, n)) = n /\ DOMAIN SubSeq(s, 1, n) = 1 .. n
      /\ \A i \in 1 .. n : i \in DOMAIN s /\ SubSeq(s, 1, n)[i] = s[i]
  BY <1>1, <1>2
<1> QED BY <1>a, <1>1, <1>2, <1>3, <1>4, <1>5, <1>6

(* The chunk the sender takes. *)
LEMMA ChunkElements ==
    ASSUME NEW S, txRing \in Seq(S), Len(txRing) <= RingSize
    PROVE  /\ Chunk \in 0 .. MaxPayload /\ Chunk \in 0 .. Len(txRing)
           /\ Chunk = 0 => txRing = << >>
           /\ SubSeq(txRing, 1, Chunk) \in Seq(S)
           /\ Len(SubSeq(txRing, 1, Chunk)) = Chunk
           /\ DOMAIN SubSeq(txRing, 1, Chunk) = 1 .. Chunk
           /\ \A i \in 1 .. Chunk : i \in DOMAIN txRing /\ SubSeq(txRing, 1, Chunk)[i] = txRing[i]
           /\ TakeChunk =>
                  /\ txRing' \in Seq(S)
                  /\ Len(txRing') = Len(txRing) - Chunk
                  /\ DOMAIN txRing' = 1 .. Len(txRing) - Chunk
                  /\ \A i \in DOMAIN txRing' : Chunk + i \in DOMAIN txRing /\ txRing'[i] = txRing[Chunk + i]
<1>1. Len(txRing) \in Nat /\ DOMAIN txRing = 1 .. Len(txRing) /\ MaxPayload \in Nat \ {0}
  BY ConstantsAssumption
<1>2. /\ Chunk \in Nat /\ Chunk <= Len(txRing) /\ Chunk <= MaxPayload
      /\ Chunk = 0 => txRing = << >>
      /\ 1 \in Nat \ {0} /\ 1 <= Chunk + 1 /\ Chunk + 1 \in Nat \ {0} /\ Chunk + 1 <= Len(txRing) + 1
  BY <1>1 DEF Chunk, Least
<1>3. /\ SubSeq(txRing, 1, Chunk) \in Seq(S)
      /\ Len(SubSeq(txRing, 1, Chunk)) = Chunk - 1 + 1
      /\ DOMAIN SubSeq(txRing, 1, Chunk) = 1 .. Chunk - 1 + 1
      /\ \A i \in 1 .. Chunk - 1 + 1 : 1 + i - 1 \in DOMAIN txRing /\ SubSeq(txRing, 1, Chunk)[i] = txRing[1 + i - 1]
  BY <1>2, SubSeqElements
<1> DEFINE new == SubSeq(txRing, Chunk + 1, Len(txRing))
<1>4. /\ new \in Seq(S)
      /\ Len(new) = Len(txRing) - (Chunk + 1) + 1
      /\ DOMAIN new = 1 .. Len(txRing) - (Chunk + 1) + 1
      /\ \A i \in 1 .. Len(txRing) - (Chunk + 1) + 1 :
             (Chunk + 1) + i - 1 \in DOMAIN txRing /\ new[i] = txRing[(Chunk + 1) + i - 1]
  <2>1. ASSUME NEW m \in Nat \ {0}, m <= Len(txRing) + 1
        PROVE  /\ SubSeq(txRing, m, Len(txRing)) \in Seq(S)
               /\ Len(SubSeq(txRing, m, Len(txRing))) = Len(txRing) - m + 1
               /\ DOMAIN SubSeq(txRing, m, Len(txRing)) = 1 .. Len(txRing) - m + 1
               /\ \A i \in 1 .. Len(txRing) - m + 1 :
                      m + i - 1 \in DOMAIN txRing /\ SubSeq(txRing, m, Len(txRing))[i] = txRing[m + i - 1]
    <3>1. Len(txRing) <= Len(txRing)
      BY <1>1
    <3> QED BY <1>1, <2>1, <3>1, SubSeqElements
  <2> DEFINE first == Chunk + 1
  <2>2. first \in Nat \ {0} /\ first <= Len(txRing) + 1
    BY <1>2
  <2> HIDE DEF first
  <2>3. /\ SubSeq(txRing, first, Len(txRing)) \in Seq(S)
        /\ Len(SubSeq(txRing, first, Len(txRing))) = Len(txRing) - first + 1
        /\ DOMAIN SubSeq(txRing, first, Len(txRing)) = 1 .. Len(txRing) - first + 1
        /\ \A i \in 1 .. Len(txRing) - first + 1 :
               first + i - 1 \in DOMAIN txRing /\ SubSeq(txRing, first, Len(txRing))[i] = txRing[first + i - 1]
    BY <2>1, <2>2
  <2> QED BY <2>3 DEF first
<1> HIDE DEF new
<1>5. TakeChunk => txRing' = new
  BY DEF TakeChunk, new
<1>6. /\ Len(SubSeq(txRing, 1, Chunk)) = Chunk /\ DOMAIN SubSeq(txRing, 1, Chunk) = 1 .. Chunk
      /\ \A i \in 1 .. Chunk : i \in DOMAIN txRing /\ SubSeq(txRing, 1, Chunk)[i] = txRing[i]
  BY <1>2, <1>3
<1>7. /\ new \in Seq(S) /\ Len(new) = Len(txRing) - Chunk /\ DOMAIN new = 1 .. Len(txRing) - Chunk
      /\ \A i \in DOMAIN new : Chunk + i \in DOMAIN txRing /\ new[i] = txRing[Chunk + i]
  <2>1. Len(new) = Len(txRing) - Chunk /\ DOMAIN new = 1 .. Len(txRing) - Chunk
    BY <1>1, <1>2, <1>4
  <2>2. ASSUME NEW i \in DOMAIN new
        PROVE  Chunk + i \in DOMAIN txRing /\ new[i] = txRing[Chunk + i]
    <3>1. (Chunk + 1) + i - 1 = Chunk + i /\ i \in 1 .. Len(txRing) - (Chunk + 1) + 1
      BY <1>1, <1>2, <2>1
    <3> QED BY <3>1, <1>4
  <2> QED BY <1>4, <2>1, <2>2
<1>8. TakeChunk =>
          /\ txRing' \in Seq(S)
          /\ Len(txRing') = Len(txRing) - Chunk
          /\ DOMAIN txRing' = 1 .. Len(txRing) - Chunk
          /\ \A i \in DOMAIN txRing' : Chunk + i \in DOMAIN txRing /\ txRing'[i] = txRing[Chunk + i]
  BY <1>5, <1>7
<1>9. Chunk \in 0 .. MaxPayload /\ Chunk \in 0 .. Len(txRing)
  BY SMTT(30), <1>1, <1>2
<1> QED BY <1>2, <1>3, <1>6, <1>8, <1>9

(* What is left of a queue after its first n elements.                      *)
LEMMA RestElements ==
    ASSUME NEW S, NEW q \in Seq(S), NEW n \in 0 .. Len(q)
    PROVE  /\ SubSeq(q, n + 1, Len(q)) \in Seq(S)
           /\ Len(q) \in Nat /\ n \in Nat
           /\ Len(SubSeq(q, n + 1, Len(q))) = Len(q) - n
           /\ DOMAIN SubSeq(q, n + 1, Len(q)) = 1 .. Len(q) - n
           /\ \A i \in 1 .. Len(q) - n : n + i \in DOMAIN q /\ SubSeq(q, n + 1, Len(q))[i] = q[n + i]
<1> DEFINE new == SubSeq(q, n + 1, Len(q))
<1>1. /\ Len(q) \in Nat /\ n \in Nat /\ n <= Len(q) /\ DOMAIN q = 1 .. Len(q)
      /\ n + 1 \in Nat \ {0} /\ n + 1 <= Len(q) + 1 /\ Len(q) <= Len(q)
  OBVIOUS
<1>2. /\ new \in Seq(S)
      /\ Len(new) = Len(q) - (n + 1) + 1
      /\ DOMAIN new = 1 .. Len(q) - (n + 1) + 1
      /\ \A i \in 1 .. Len(q) - (n + 1) + 1 : (n + 1) + i - 1 \in DOMAIN q /\ new[i] = q[(n + 1) + i - 1]
  <2> DEFINE m == n + 1
             last == Len(q)
  <2>1. m \in Nat \ {0} /\ last \in Nat /\ last <= Len(q) /\ m <= last + 1
    BY <1>1
  <2>2. new = SubSeq(q, m, last)
    OBVIOUS
  <2> HIDE DEF m, last, new
  <2>3. /\ new \in Seq(S) /\ Len(new) = last - m + 1 /\ DOMAIN new = 1 .. last - m + 1
        /\ \A i \in 1 .. last - m + 1 : m + i - 1 \in DOMAIN q /\ new[i] = q[m + i - 1]
    BY <2>1, <2>2, SubSeqElements
  <2> QED BY <2>3 DEF m, last
<1> HIDE DEF new
<1>3. Len(q) - (n + 1) + 1 = Len(q) - n
  BY <1>1
<1>4. ASSUME NEW i \in 1 .. Len(q) - n
      PROVE  n + i \in DOMAIN q /\ new[i] = q[n + i]
  <2>1. (n + 1) + i - 1 = n + i
    BY <1>1
  <2> QED BY <1>2, <1>3, <2>1
<1>5. /\ new \in Seq(S) /\ Len(new) = Len(q) - n /\ DOMAIN new = 1 .. Len(q) - n
  BY <1>2, <1>3
<1> QED BY <1>1, <1>4, <1>5 DEF new

(* A frame's units. *)
LEMMA LengthsAndPayloads ==
    ASSUME NEW f, FrameOK(f), f.flag = "data"
    PROVE  LengthOf(f.id, f.len) \in Seq(RxUnits) /\ Units(f.id, f.len) \in Seq(RxUnits)
<1>1. f.id \in 0 .. MaxFrames /\ f.len \in 1 .. MaxLen /\ MaxLen \in Nat
  BY ConstantsAssumption DEF FrameOK, Frames
<1>2. \A i \in 0 .. f.len : <<f.id, i, f.len>> \in RxUnits
  BY <1>1 DEF RxUnits
<1>3. <<f.id, 0, f.len>> \in RxUnits
  BY <1>1, <1>2
<1> QED BY <1>1, <1>2, <1>3 DEF LengthOf, Units

-----------------------------------------------------------------------------
(* Every step keeps the types. *)

(* Types of the channel and its rings. *)
LEMMA ChannelTypesKept ==
    ASSUME TypeInv, [Next]_vars
    PROVE  ChannelTypes'
<1>1. ASSUME NEW c \in Clients, Accept(c)
      PROVE  ChannelTypes'
  <2>1. << >> \in Seq(Bytes) /\ << >> \in Seq(RxUnits) /\ Len(<< >>) <= RingSize
    BY ConstantsAssumption
  <2> QED BY <1>1, <2>1 DEF Accept, TypeInv, ChannelTypes
<1>2. ASSUME NEW c \in Clients, Answer(c) \/ Announce(c) \/ Spawn(c) \/ Deactivate(c)
      PROVE  ChannelTypes'
  BY <1>2 DEF Answer, Announce, Spawn, Deactivate, channelVars, TypeInv, ChannelTypes
<1>3. ASSUME NEW c \in Clients, Push(c)
      PROVE  ChannelTypes'
  <2>1. txRing \in Seq(Bytes) /\ Len(txRing) <= RingSize /\ held[c] \in Seq(Bytes)
    BY DEF TypeInv, ChannelTypes, ReaderTypes
  <2>2. txRing' = txRing \o Fits(txRing, held[c])
    BY <1>3 DEF Push
  <2>3. Fits(txRing, held[c]) \in Seq(Bytes) /\ Len(txRing) + Len(Fits(txRing, held[c])) <= RingSize
    BY <2>1, FitsElements
  <2>4. txRing' \in Seq(Bytes) /\ Len(txRing') <= RingSize
    BY <2>1, <2>2, <2>3, ConcatElements
  <2> QED BY <1>3, <2>4 DEF Push, TypeInv, ChannelTypes
<1>4. ASSUME NEW c \in Clients, Fill(c) \/ Loop(c)
      PROVE  ChannelTypes'
  <2>1. txRing \in Seq(Bytes) /\ Len(txRing) <= RingSize /\ RingSize \in Nat /\ Len(txRing) \in Nat
    BY ConstantsAssumption DEF TypeInv, ChannelTypes
  <2>2. TakeChunk => txRing' \in Seq(Bytes) /\ Len(txRing') <= RingSize
    BY <2>1, ChunkElements
  <2>3. txRing' \in Seq(Bytes) /\ Len(txRing') <= RingSize
    BY <1>4, <2>1, <2>2 DEF Fill, Loop
  <2> QED BY <1>4, <2>3 DEF Fill, Loop, TypeInv, ChannelTypes
<1>5. ASSUME NEW c \in Clients, TakeLength(c)
      PROVE  ChannelTypes'
  <2>1. rxRing \in Seq(RxUnits) /\ Len(rxRing) <= RingSize /\ rxRing # << >> /\ RingSize \in Nat
    BY <1>5, ConstantsAssumption DEF TakeLength, TypeInv, ChannelTypes
  <2>2. rxRing' \in Seq(RxUnits) /\ Len(rxRing') <= RingSize
    <3>1. CASE rxRing' = Tail(rxRing)
      BY <2>1, <3>1, TailElements
    <3>2. CASE \E n \in 1 .. Len(rxRing) : rxRing' = SubSeq(rxRing, n + 1, Len(rxRing))
      BY <2>1, <3>2, RestElements
    <3> QED BY <1>5, <3>1, <3>2 DEF TakeLength
  <2> QED BY <1>5, <2>2 DEF TakeLength, TypeInv, ChannelTypes
<1>6. ASSUME NEW c \in Clients, TakePayload(c)
      PROVE  ChannelTypes'
  <2>1. /\ rxRing \in Seq(RxUnits) /\ Len(rxRing) <= RingSize /\ RingSize \in Nat
        /\ plen[c] \in 0 .. Len(rxRing) /\ rxRing' = SubSeq(rxRing, plen[c] + 1, Len(rxRing))
    BY <1>6, ConstantsAssumption DEF TakePayload, TypeInv, ChannelTypes, ForwardTypes
  <2>2. rxRing' \in Seq(RxUnits) /\ Len(rxRing') <= RingSize
    BY <2>1, RestElements
  <2> QED BY <1>6, <2>2 DEF TakePayload, TypeInv, ChannelTypes
<1>7. ASSUME WriteLength
      PROVE  ChannelTypes'
  <2>1. rxRing \in Seq(RxUnits) /\ Len(rxRing) <= RingSize /\ LengthOf(frame.id, frame.len) \in Seq(RxUnits)
    BY <1>7, LengthsAndPayloads DEF WriteLength, TypeInv, ChannelTypes, RxTypes
  <2>2. rxRing' \in Seq(RxUnits) /\ Len(rxRing') <= RingSize
    BY <1>7, <2>1, FitsElements, ConcatElements DEF WriteLength, WriteRing
  <2> QED BY <1>7, <2>2 DEF WriteLength, TypeInv, ChannelTypes
<1>8. ASSUME WritePayload
      PROVE  ChannelTypes'
  <2>1. rxRing \in Seq(RxUnits) /\ Len(rxRing) <= RingSize /\ Units(frame.id, frame.len) \in Seq(RxUnits)
    BY <1>8, LengthsAndPayloads DEF WritePayload, TypeInv, ChannelTypes, RxTypes
  <2>2. rxRing' \in Seq(RxUnits) /\ Len(rxRing') <= RingSize
    BY <1>8, <2>1, FitsElements, ConcatElements DEF WritePayload, WriteRing
  <2> QED BY <1>8, <2>2 DEF WritePayload, TypeInv, ChannelTypes
<1>9. ASSUME Dispatch
      PROVE  ChannelTypes'
  BY <1>9 DEF Dispatch, TypeInv, ChannelTypes
<1>10. ASSUME \/ \E c \in Clients : ClientRecv(c) \/ ClientClose(c) \/ Read(c) \/ ReadFails(c) \/ Pushed(c) \/
                      SayClose(c) \/ Sleep(c) \/ Send(c) \/ Flush(c) \/ Doze(c) \/ TimesOut(c) \/
                      Forward(c) \/ Stops(c)
              \/ \E c \in Clients, n \in 1 .. MaxLen : ClientSend(c, n)
              \/ \E f \in HostFrames : HostSend(f)
              \/ Parse \/ Disable \/ Enable
              \/ UNCHANGED vars
      PROVE  UNCHANGED <<active, sock, txRing, rxRing, accepting>>
  <2>1. CASE \E c \in Clients : ClientRecv(c) \/ ClientClose(c) \/ Read(c) \/ ReadFails(c) \/ Pushed(c) \/ SayClose(c) \/ Sleep(c)
    BY <2>1 DEF ClientRecv, ClientClose, Read, ReadFails, Pushed, SayClose, Sleep, channelVars,
           clientVars, forwardVars, hostVars, readerVars, rxVars, senderVars, usbVars, SendData
  <2>2. CASE \E c \in Clients : Send(c) \/ Flush(c) \/ Doze(c) \/ TimesOut(c) \/ Forward(c) \/ Stops(c)
    BY <2>2 DEF Send, Flush, Doze, TimesOut, Forward, Stops, channelVars, clientVars, forwardVars,
           hostVars, readerVars, rxVars, senderVars, usbVars, SendData
  <2>3. CASE \/ \E c \in Clients, n \in 1 .. MaxLen : ClientSend(c, n)
             \/ \E f \in HostFrames : HostSend(f)
             \/ Parse \/ Disable \/ Enable
             \/ UNCHANGED vars
    BY <2>3 DEF ClientSend, HostSend, Parse, Disable, Enable, vars, channelVars, clientVars,
           forwardVars, hostVars, readerVars, rxVars, senderVars, usbVars, SendData
  <2> QED BY <1>10, <2>1, <2>2, <2>3
<1>11. UNCHANGED <<active, sock, txRing, rxRing, accepting>> => ChannelTypes'
  BY DEF TypeInv, ChannelTypes
<1> QED BY <1>1, <1>2, <1>3, <1>4, <1>5, <1>6, <1>7, <1>8, <1>9, <1>10, <1>11 DEF Next, Reader, Sender, Forwarder, Receiver

(* Types of the applications. *)
LEMMA ClientTypesKept ==
    ASSUME TypeInv, [Next]_vars
    PROVE  ClientTypes'
<1>1. ASSUME NEW c \in Clients, Accept(c) \/ Answer(c) \/ ClientClose(c)
      PROVE  ClientTypes'
  BY <1>1 DEF Accept, Answer, ClientClose, TypeInv, ClientTypes
<1>2. ASSUME NEW c \in Clients, NEW n \in 1 .. MaxLen, ClientSend(c, n)
      PROVE  ClientTypes'
  <2>1. written[c] \in 0 .. MaxUnits /\ inbox[c] \in Seq(Seq(Bytes)) /\ MaxUnits \in Nat /\ MaxLen \in Nat
    BY ConstantsAssumption DEF TypeInv, ClientTypes
  <2>2. written[c] + n <= MaxUnits /\ written[c] + n \in 0 .. MaxUnits
    BY <1>2, <2>1 DEF ClientSend
  <2>3. [i \in 1 .. n |-> <<c, written[c] + i>>] \in Seq(Bytes)
    BY <2>1, <2>2 DEF Bytes
  <2>4. Append(inbox[c], [i \in 1 .. n |-> <<c, written[c] + i>>]) \in Seq(Seq(Bytes))
    BY <2>1, <2>3, AppendElements
  <2> QED BY <1>2, <2>2, <2>4 DEF ClientSend, TypeInv, ClientTypes
<1>3. ASSUME NEW c \in Clients, Read(c)
      PROVE  ClientTypes'
  <2>1. Tail(inbox[c]) \in Seq(Seq(Bytes))
    BY <1>3, TailElements DEF Read, TypeInv, ClientTypes
  <2> QED BY <1>3, <2>1 DEF Read, TypeInv, ClientTypes
<1>4. ASSUME \/ \E c \in Clients : Announce(c) \/ Spawn(c) \/ ClientRecv(c) \/ ReadFails(c) \/ Push(c) \/
                      Pushed(c) \/ Deactivate(c) \/ SayClose(c) \/ Sleep(c) \/ Fill(c) \/
                      Loop(c) \/ Send(c) \/ Flush(c) \/ Doze(c) \/ TakeLength(c) \/
                      TakePayload(c) \/ TimesOut(c) \/ Forward(c) \/ Stops(c)
             \/ \E f \in HostFrames : HostSend(f)
             \/ Parse \/ WriteLength \/ WritePayload \/ Dispatch \/ Disable \/ Enable
             \/ UNCHANGED vars
      PROVE  UNCHANGED <<client, inbox, written>>
  <2>1. CASE \E c \in Clients : Announce(c) \/ Spawn(c) \/ ClientRecv(c) \/ ReadFails(c) \/ Push(c) \/ Pushed(c) \/ Deactivate(c)
    BY <2>1 DEF Announce, Spawn, ClientRecv, ReadFails, Push, Pushed, Deactivate, channelVars,
           clientVars, forwardVars, hostVars, readerVars, rxVars, senderVars, usbVars, WriteRing,
           Handled, SendOpen, SendData
  <2>2. CASE \E c \in Clients : SayClose(c) \/ Sleep(c) \/ Fill(c) \/ Loop(c) \/ Send(c) \/ Flush(c) \/ Doze(c)
    BY <2>2 DEF SayClose, Sleep, Fill, Loop, Send, Flush, Doze, channelVars, clientVars,
           forwardVars, hostVars, readerVars, rxVars, senderVars, usbVars, WriteRing, Handled,
           SendOpen, SendData
  <2>3. CASE \E c \in Clients : TakeLength(c) \/ TakePayload(c) \/ TimesOut(c) \/ Forward(c) \/ Stops(c)
    BY <2>3 DEF TakeLength, TakePayload, TimesOut, Forward, Stops, channelVars, clientVars,
           forwardVars, hostVars, readerVars, rxVars, senderVars, usbVars, WriteRing, Handled,
           SendOpen, SendData
  <2>4. CASE \/ \E f \in HostFrames : HostSend(f)
             \/ Parse \/ WriteLength \/ WritePayload \/ Dispatch \/ Disable \/ Enable
             \/ UNCHANGED vars
    BY <2>4 DEF HostSend, Parse, WriteLength, WritePayload, Dispatch, Disable, Enable, vars,
           channelVars, clientVars, forwardVars, hostVars, readerVars, rxVars, senderVars,
           usbVars, WriteRing, Handled, SendOpen, SendData
  <2> QED BY <1>4, <2>1, <2>2, <2>3, <2>4
<1>5. UNCHANGED <<client, inbox, written>> => ClientTypes'
  BY DEF TypeInv, ClientTypes
<1> QED BY <1>1, <1>2, <1>3, <1>4, <1>5 DEF Next, Reader, Sender, Forwarder, Receiver

(* Types of the sockets. *)
LEMMA DeliveryTypesKept ==
    ASSUME TypeInv, [Next]_vars
    PROVE  DeliveryTypes'
<1>1. ASSUME NEW c \in Clients, ClientRecv(c)
      PROVE  DeliveryTypes'
  <2>1. /\ delivered' = delivered /\ taken' = [taken EXCEPT ![c] = @ + 1] /\ taken' \in [Clients -> Nat]
        /\ Unread(c) > 0
    BY <1>1 DEF ClientRecv, TypeInv, DeliveryTypes
  <2>2. ASSUME NEW d \in Clients
        PROVE  Unread(d)' \in 0 .. SocketSize
    <3>1. /\ Len(delivered[d]) \in Nat /\ taken[d] \in Nat /\ SocketSize \in Nat
          /\ Len(delivered[d]) - taken[d] \in 0 .. SocketSize
      BY ConstantsAssumption DEF TypeInv, DeliveryTypes, Unread
    <3> QED BY <2>1, <3>1 DEF Unread, TypeInv, DeliveryTypes
  <2> QED BY <2>1, <2>2 DEF TypeInv, DeliveryTypes
<1>2. ASSUME NEW c \in Clients, Forward(c)
      PROVE  DeliveryTypes'
  <2>1. /\ rxbuf[c] \in Seq(RxUnits) /\ delivered \in [Clients -> Seq(Seq(RxUnits))] /\ taken \in [Clients -> Nat]
        /\ SocketSize \in Nat
    BY ConstantsAssumption DEF TypeInv, DeliveryTypes, ForwardTypes
  <2>2. taken' = taken
    BY <1>2 DEF Forward, clientVars
  <2>3. CASE sock \notin Clients \/ client[sock] = "closed"
    <3>1. delivered' = delivered
      BY <1>2, <2>1, <2>3 DEF Forward
    <3> QED BY <2>2, <3>1 DEF TypeInv, DeliveryTypes, Unread
  <2>4. CASE sock \in Clients /\ client[sock] # "closed"
    <3>1. delivered' = [delivered EXCEPT ![sock] = Append(@, rxbuf[c])] /\ Unread(sock) < SocketSize
      BY <1>2, <2>4 DEF Forward
    <3>2. /\ Append(delivered[sock], rxbuf[c]) \in Seq(Seq(RxUnits))
          /\ Len(Append(delivered[sock], rxbuf[c])) = Len(delivered[sock]) + 1
          /\ Len(delivered[sock]) \in Nat
      BY <2>1, <2>4, AppendElements
    <3>3. delivered' \in [Clients -> Seq(Seq(RxUnits))]
      BY <2>1, <3>1, <3>2
    <3>4. ASSUME NEW d \in Clients
          PROVE  Unread(d)' \in 0 .. SocketSize
      <4>1. Unread(d) \in 0 .. SocketSize /\ taken[d] \in Nat
        BY DEF TypeInv, DeliveryTypes
      <4>2. CASE d = sock
        <5>1. Len(delivered'[d]) = Len(delivered[d]) + 1 /\ taken'[d] = taken[d]
          BY <2>1, <2>2, <2>4, <3>1, <3>2, <4>2
        <5> QED BY <2>1, <3>1, <3>2, <4>1, <4>2, <5>1 DEF Unread
      <4>3. CASE d # sock
        <5>1. delivered'[d] = delivered[d] /\ taken'[d] = taken[d]
          BY <2>1, <2>2, <3>1, <4>3
        <5> QED BY <4>1, <5>1 DEF Unread
      <4> QED BY <4>2, <4>3
    <3> QED BY <2>1, <2>2, <3>3, <3>4 DEF DeliveryTypes
  <2> QED BY <2>3, <2>4
<1>3. ASSUME \/ \E c \in Clients : Accept(c) \/ Answer(c) \/ Announce(c) \/ Spawn(c) \/ ClientClose(c) \/
                      Read(c) \/ ReadFails(c) \/ Push(c) \/ Pushed(c) \/ Deactivate(c) \/
                      SayClose(c) \/ Sleep(c) \/ Fill(c) \/ Loop(c) \/ Send(c) \/ Flush(c) \/
                      Doze(c) \/ TakeLength(c) \/ TakePayload(c) \/ TimesOut(c) \/ Stops(c)
             \/ \E c \in Clients, n \in 1 .. MaxLen : ClientSend(c, n)
             \/ \E f \in HostFrames : HostSend(f)
             \/ Parse \/ WriteLength \/ WritePayload \/ Dispatch \/ Disable \/ Enable
             \/ UNCHANGED vars
      PROVE  UNCHANGED <<delivered, taken>>
  <2>1. CASE \E c \in Clients : Accept(c) \/ Answer(c) \/ Announce(c) \/ Spawn(c) \/ ClientClose(c) \/ Read(c)
    BY <2>1 DEF Accept, Answer, Announce, Spawn, ClientClose, Read, channelVars, clientVars,
           forwardVars, hostVars, readerVars, rxVars, senderVars, usbVars, WriteRing, Handled,
           SendOpen, SendData
  <2>2. CASE \E c \in Clients : ReadFails(c) \/ Push(c) \/ Pushed(c) \/ Deactivate(c) \/ SayClose(c) \/ Sleep(c)
    BY <2>2 DEF ReadFails, Push, Pushed, Deactivate, SayClose, Sleep, channelVars, clientVars,
           forwardVars, hostVars, readerVars, rxVars, senderVars, usbVars, WriteRing, Handled,
           SendOpen, SendData
  <2>3. CASE \E c \in Clients : Fill(c) \/ Loop(c) \/ Send(c) \/ Flush(c) \/ Doze(c) \/ TakeLength(c)
    BY <2>3 DEF Fill, Loop, Send, Flush, Doze, TakeLength, channelVars, clientVars, forwardVars,
           hostVars, readerVars, rxVars, senderVars, usbVars, WriteRing, Handled, SendOpen,
           SendData
  <2>4. CASE \E c \in Clients : TakePayload(c) \/ TimesOut(c) \/ Stops(c)
    BY <2>4 DEF TakePayload, TimesOut, Stops, channelVars, clientVars, forwardVars, hostVars,
           readerVars, rxVars, senderVars, usbVars, WriteRing, Handled, SendOpen, SendData
  <2>5. CASE \/ \E c \in Clients, n \in 1 .. MaxLen : ClientSend(c, n)
             \/ \E f \in HostFrames : HostSend(f)
             \/ Parse \/ WriteLength \/ WritePayload \/ Dispatch \/ Disable \/ Enable
             \/ UNCHANGED vars
    BY <2>5 DEF ClientSend, HostSend, Parse, WriteLength, WritePayload, Dispatch, Disable, Enable,
           vars, channelVars, clientVars, forwardVars, hostVars, readerVars, rxVars, senderVars,
           usbVars, WriteRing, Handled, SendOpen, SendData
  <2> QED BY <1>3, <2>1, <2>2, <2>3, <2>4, <2>5
<1>4. UNCHANGED <<delivered, taken>> => DeliveryTypes'
  BY DEF TypeInv, DeliveryTypes, Unread
<1> QED BY <1>1, <1>2, <1>3, <1>4 DEF Next, Reader, Sender, Forwarder, Receiver

(* Types of the reader. *)
LEMMA ReaderTypesKept ==
    ASSUME TypeInv, [Next]_vars
    PROVE  ReaderTypes'
<1>1. ASSUME NEW c \in Clients, Spawn(c) \/ ReadFails(c) \/ Pushed(c) \/ Deactivate(c) \/ SayClose(c)
      PROVE  ReaderTypes'
  <2>1. << >> \in Seq(Bytes)
    OBVIOUS
  <2> QED BY <1>1, <2>1 DEF Spawn, ReadFails, Pushed, Deactivate, SayClose, TypeInv, ReaderTypes
<1>2. ASSUME NEW c \in Clients, Read(c)
      PROVE  ReaderTypes'
  <2>1. Head(inbox[c]) \in Seq(Bytes)
    BY <1>2, TailElements DEF Read, TypeInv, ClientTypes
  <2> QED BY <1>2, <2>1 DEF Read, TypeInv, ReaderTypes
<1>3. ASSUME NEW c \in Clients, Push(c)
      PROVE  ReaderTypes'
  <2> DEFINE k == Len(Fits(txRing, held[c]))
  <2>1. /\ txRing \in Seq(Bytes) /\ Len(txRing) <= RingSize /\ held[c] \in Seq(Bytes)
        /\ held' = [held EXCEPT ![c] = SubSeq(@, k + 1, Len(@))] /\ reader' = reader
    BY <1>3 DEF Push, TypeInv, ChannelTypes, ReaderTypes
  <2>2. k \in 0 .. Len(held[c])
    BY <2>1, FitsElements
  <2>3. SubSeq(held[c], k + 1, Len(held[c])) \in Seq(Bytes)
    BY <2>1, <2>2, RestElements
  <2> QED BY <2>1, <2>3 DEF TypeInv, ReaderTypes
<1>4. ASSUME \/ \E c \in Clients : Accept(c) \/ Answer(c) \/ Announce(c) \/ ClientRecv(c) \/ ClientClose(c) \/
                      Sleep(c) \/ Fill(c) \/ Loop(c) \/ Send(c) \/ Flush(c) \/ Doze(c) \/
                      TakeLength(c) \/ TakePayload(c) \/ TimesOut(c) \/ Forward(c) \/ Stops(c)
             \/ \E c \in Clients, n \in 1 .. MaxLen : ClientSend(c, n)
             \/ \E f \in HostFrames : HostSend(f)
             \/ Parse \/ WriteLength \/ WritePayload \/ Dispatch \/ Disable \/ Enable
             \/ UNCHANGED vars
      PROVE  UNCHANGED <<reader, held>>
  <2>1. CASE \E c \in Clients : Accept(c) \/ Answer(c) \/ Announce(c) \/ ClientRecv(c) \/ ClientClose(c) \/ Sleep(c)
    BY <2>1 DEF Accept, Answer, Announce, ClientRecv, ClientClose, Sleep, channelVars, clientVars,
           forwardVars, hostVars, readerVars, rxVars, senderVars, usbVars, WriteRing, Handled,
           SendOpen, SendData
  <2>2. CASE \E c \in Clients : Fill(c) \/ Loop(c) \/ Send(c) \/ Flush(c) \/ Doze(c) \/ TakeLength(c)
    BY <2>2 DEF Fill, Loop, Send, Flush, Doze, TakeLength, channelVars, clientVars, forwardVars,
           hostVars, readerVars, rxVars, senderVars, usbVars, WriteRing, Handled, SendOpen,
           SendData
  <2>3. CASE \E c \in Clients : TakePayload(c) \/ TimesOut(c) \/ Forward(c) \/ Stops(c)
    BY <2>3 DEF TakePayload, TimesOut, Forward, Stops, channelVars, clientVars, forwardVars,
           hostVars, readerVars, rxVars, senderVars, usbVars, WriteRing, Handled, SendOpen,
           SendData
  <2>4. CASE \/ \E c \in Clients, n \in 1 .. MaxLen : ClientSend(c, n)
             \/ \E f \in HostFrames : HostSend(f)
             \/ Parse \/ WriteLength \/ WritePayload \/ Dispatch \/ Disable \/ Enable
             \/ UNCHANGED vars
    BY <2>4 DEF ClientSend, HostSend, Parse, WriteLength, WritePayload, Dispatch, Disable, Enable,
           vars, channelVars, clientVars, forwardVars, hostVars, readerVars, rxVars, senderVars,
           usbVars, WriteRing, Handled, SendOpen, SendData
  <2> QED BY <1>4, <2>1, <2>2, <2>3, <2>4
<1>5. UNCHANGED <<reader, held>> => ReaderTypes'
  BY DEF TypeInv, ReaderTypes
<1> QED BY <1>1, <1>2, <1>3, <1>4, <1>5 DEF Next, Reader, Sender, Forwarder, Receiver

(* Types of the sender. *)
LEMMA SenderTypesKept ==
    ASSUME TypeInv, [Next]_vars
    PROVE  SenderTypes'
<1>1. ASSUME NEW c \in Clients, Accept(c) \/ Spawn(c) \/ Push(c) \/ Sleep(c)
      PROVE  SenderTypes'
  <2>1. cur' = cur /\ nxt' = nxt
    BY <1>1 DEF Accept, Spawn, Push, Sleep
  <2> QED BY <1>1, <2>1 DEF Accept, Spawn, Push, Sleep, Woken, TypeInv, SenderTypes
<1>2. ASSUME NEW c \in Clients, Fill(c) \/ Loop(c)
      PROVE  SenderTypes'
  <2>1. /\ SubSeq(txRing, 1, Chunk) \in Seq(Bytes) /\ Len(SubSeq(txRing, 1, Chunk)) <= MaxPayload
    <3>1. txRing \in Seq(Bytes) /\ Len(txRing) <= RingSize
      BY DEF TypeInv, ChannelTypes
    <3>2. /\ SubSeq(txRing, 1, Chunk) \in Seq(Bytes) /\ Len(SubSeq(txRing, 1, Chunk)) = Chunk
          /\ Chunk \in 0 .. MaxPayload
      BY <3>1, ChunkElements
    <3> QED BY <3>2, ConstantsAssumption
  <2>2. sender' \in [Clients -> {"none", "idle", "asleep", "top", "send", "sendlast", "flush", "end", "lost"}]
    BY <1>2 DEF Fill, Loop, TypeInv, SenderTypes
  <2>3. CASE Fill(c)
    <3>1. nxt' = nxt /\ \/ cur' = cur
                        \/ cur' = [cur EXCEPT ![c] = SubSeq(txRing, 1, Chunk)]
      BY <2>3 DEF Fill, TypeInv, SenderTypes
    <3> QED BY <2>1, <2>2, <3>1 DEF TypeInv, SenderTypes
  <2>4. CASE Loop(c)
    <3>1. cur' = cur /\ \/ nxt' = nxt
                        \/ nxt' = [nxt EXCEPT ![c] = SubSeq(txRing, 1, Chunk)]
      BY <2>4 DEF Loop, TypeInv, SenderTypes
    <3> QED BY <2>1, <2>2, <3>1 DEF TypeInv, SenderTypes
  <2> QED BY <1>2, <2>3, <2>4
<1>3. ASSUME NEW c \in Clients, Send(c) \/ Flush(c)
      PROVE  SenderTypes'
  <2>1. << >> \in Seq(Bytes) /\ Len(<< >>) <= MaxPayload
    BY ConstantsAssumption
  <2>2. sender' \in [Clients -> {"none", "idle", "asleep", "top", "send", "sendlast", "flush", "end", "lost"}]
    BY <1>3 DEF Send, Flush, TypeInv, SenderTypes
  <2>3. \/ cur' = cur /\ nxt' = nxt
        \/ cur' = [cur EXCEPT ![c] = nxt[c]] /\ nxt' = [nxt EXCEPT ![c] = << >>]
        \/ cur' = [cur EXCEPT ![c] = << >>] /\ nxt' = [nxt EXCEPT ![c] = << >>]
    BY <1>3 DEF Send, Flush
  <2> QED BY <2>1, <2>2, <2>3 DEF TypeInv, SenderTypes
<1>4. ASSUME \/ \E c \in Clients : Answer(c) \/ Announce(c) \/ ClientRecv(c) \/ ClientClose(c) \/ Read(c) \/
                      ReadFails(c) \/ Pushed(c) \/ Deactivate(c) \/ SayClose(c) \/ Doze(c) \/
                      TakeLength(c) \/ TakePayload(c) \/ TimesOut(c) \/ Forward(c) \/ Stops(c)
             \/ \E c \in Clients, n \in 1 .. MaxLen : ClientSend(c, n)
             \/ \E f \in HostFrames : HostSend(f)
             \/ Parse \/ WriteLength \/ WritePayload \/ Dispatch \/ Disable \/ Enable
             \/ UNCHANGED vars
      PROVE  UNCHANGED <<sender, cur, nxt>>
  <2>1. CASE \E c \in Clients : Answer(c) \/ Announce(c) \/ ClientRecv(c) \/ ClientClose(c) \/ Read(c) \/ ReadFails(c) \/ Pushed(c) \/ Deactivate(c)
    BY <2>1 DEF Answer, Announce, ClientRecv, ClientClose, Read, ReadFails, Pushed, Deactivate,
           channelVars, clientVars, forwardVars, hostVars, readerVars, rxVars, senderVars,
           usbVars, WriteRing, Handled, SendOpen
  <2>2. CASE \E c \in Clients : SayClose(c) \/ Doze(c) \/ TakeLength(c) \/ TakePayload(c) \/ TimesOut(c) \/ Forward(c) \/ Stops(c)
    BY <2>2 DEF SayClose, Doze, TakeLength, TakePayload, TimesOut, Forward, Stops, channelVars,
           clientVars, forwardVars, hostVars, readerVars, rxVars, senderVars, usbVars, WriteRing,
           Handled, SendOpen
  <2>3. CASE \/ \E c \in Clients, n \in 1 .. MaxLen : ClientSend(c, n)
             \/ \E f \in HostFrames : HostSend(f)
             \/ Parse \/ WriteLength \/ WritePayload \/ Dispatch \/ Disable \/ Enable
             \/ UNCHANGED vars
    BY <2>3 DEF ClientSend, HostSend, Parse, WriteLength, WritePayload, Dispatch, Disable, Enable,
           vars, channelVars, clientVars, forwardVars, hostVars, readerVars, rxVars, senderVars,
           usbVars, WriteRing, Handled, SendOpen
  <2> QED BY <1>4, <2>1, <2>2, <2>3
<1>5. UNCHANGED <<sender, cur, nxt>> => SenderTypes'
  BY DEF TypeInv, SenderTypes
<1> QED BY <1>1, <1>2, <1>3, <1>4, <1>5 DEF Next, Reader, Sender, Forwarder, Receiver

(* Types of the forwarder. *)
LEMMA ForwardTypesKept ==
    ASSUME TypeInv, [Next]_vars
    PROVE  ForwardTypes'
<1>1. ASSUME NEW c \in Clients, Accept(c) \/ Spawn(c) \/ Doze(c) \/ Stops(c) \/ TimesOut(c)
      PROVE  ForwardTypes'
  <2>1. 0 \in 0 .. MaxLen
    BY ConstantsAssumption
  <2> QED BY <1>1, <2>1 DEF Accept, Spawn, Doze, Stops, TimesOut, Looping, forwardVars, TypeInv, ForwardTypes
<1>2. ASSUME WriteLength \/ WritePayload
      PROVE  ForwardTypes'
  BY <1>2 DEF WriteLength, WritePayload, WriteRing, Woken, TypeInv, ForwardTypes
<1>3. ASSUME NEW c \in Clients, TakeLength(c)
      PROVE  ForwardTypes'
  <2>1. rxRing \in Seq(RxUnits) /\ rxRing # << >> /\ MaxLen \in Nat
    BY <1>3, ConstantsAssumption DEF TakeLength, TypeInv, ChannelTypes
  <2>2. Head(rxRing) \in RxUnits
    BY <2>1, TailElements
  <2>3. Head(rxRing)[3] \in 0 .. MaxLen
    BY <2>1, <2>2 DEF RxUnits
  <2>4. plen' = plen \/ \E n \in 0 .. MaxLen : plen' = [plen EXCEPT ![c] = n]
    BY <1>3, <2>1, <2>3 DEF TakeLength
  <2> QED BY <1>3, <2>4 DEF TakeLength, Looping, TypeInv, ForwardTypes
<1>4. ASSUME NEW c \in Clients, TakePayload(c)
      PROVE  ForwardTypes'
  <2>1. rxRing \in Seq(RxUnits) /\ plen[c] \in 0 .. Len(rxRing) /\ 0 \in 0 .. MaxLen
    BY <1>4, ConstantsAssumption DEF TakePayload, TypeInv, ChannelTypes, ForwardTypes
  <2>2. SubSeq(rxRing, 1, plen[c]) \in Seq(RxUnits)
    BY <2>1, SubSeqElements
  <2> QED BY <1>4, <2>1, <2>2 DEF TakePayload, TypeInv, ForwardTypes
<1>5. ASSUME NEW c \in Clients, Forward(c)
      PROVE  ForwardTypes'
  <2>1. << >> \in Seq(RxUnits)
    OBVIOUS
  <2> QED BY <1>5, <2>1 DEF Forward, Looping, TypeInv, ForwardTypes
<1>6. ASSUME \/ \E c \in Clients : Answer(c) \/ Announce(c) \/ ClientRecv(c) \/ ClientClose(c) \/ Read(c) \/
                      ReadFails(c) \/ Push(c) \/ Pushed(c) \/ Deactivate(c) \/ SayClose(c) \/
                      Sleep(c) \/ Fill(c) \/ Loop(c) \/ Send(c) \/ Flush(c)
             \/ \E c \in Clients, n \in 1 .. MaxLen : ClientSend(c, n)
             \/ \E f \in HostFrames : HostSend(f)
             \/ Parse \/ Dispatch \/ Disable \/ Enable
             \/ UNCHANGED vars
      PROVE  UNCHANGED <<forwarder, plen, rxbuf>>
  <2>1. CASE \E c \in Clients : Answer(c) \/ Announce(c) \/ ClientRecv(c) \/ ClientClose(c) \/ Read(c) \/ ReadFails(c) \/ Push(c) \/ Pushed(c)
    BY <2>1 DEF Answer, Announce, ClientRecv, ClientClose, Read, ReadFails, Push, Pushed,
           channelVars, clientVars, forwardVars, hostVars, readerVars, rxVars, senderVars,
           usbVars, Handled, SendOpen, SendData
  <2>2. CASE \E c \in Clients : Deactivate(c) \/ SayClose(c) \/ Sleep(c) \/ Fill(c) \/ Loop(c) \/ Send(c) \/ Flush(c)
    BY <2>2 DEF Deactivate, SayClose, Sleep, Fill, Loop, Send, Flush, channelVars, clientVars,
           forwardVars, hostVars, readerVars, rxVars, senderVars, usbVars, Handled, SendOpen,
           SendData
  <2>3. CASE \/ \E c \in Clients, n \in 1 .. MaxLen : ClientSend(c, n)
             \/ \E f \in HostFrames : HostSend(f)
             \/ Parse \/ Dispatch \/ Disable \/ Enable
             \/ UNCHANGED vars
    BY <2>3 DEF ClientSend, HostSend, Parse, Dispatch, Disable, Enable, vars, channelVars,
           clientVars, forwardVars, hostVars, readerVars, rxVars, senderVars, usbVars, Handled,
           SendOpen, SendData
  <2> QED BY <1>6, <2>1, <2>2, <2>3
<1>7. UNCHANGED <<forwarder, plen, rxbuf>> => ForwardTypes'
  BY DEF TypeInv, ForwardTypes
<1> QED BY <1>1, <1>2, <1>3, <1>4, <1>5, <1>6, <1>7 DEF Next, Reader, Sender, Forwarder, Receiver

(* Types of the receiving thread. *)
LEMMA RxTypesKept ==
    ASSUME TypeInv, [Next]_vars
    PROVE  RxTypes'
<1>1. ASSUME Parse
      PROVE  RxTypes'
  <2>1. FrameOK(Head(usbIn)) /\ active \in BOOLEAN
    <3>1. usbIn \in Seq(Frames) /\ usbIn # << >> /\ \A i \in DOMAIN usbIn : FrameOK(usbIn[i])
      BY <1>1 DEF Parse, TypeInv, UsbTypes
    <3>2. 1 \in DOMAIN usbIn /\ Head(usbIn) = usbIn[1]
      BY <3>1, TailElements
    <3> QED BY <3>1, <3>2 DEF TypeInv, ChannelTypes
  <2>2. \A n \in 1 .. MaxLen : FrameOK([flag |-> "data", id |-> Mixed, len |-> n])
    BY ConstantsAssumption DEF FrameOK, Frames, Mixed
  <2> QED BY <1>1, <2>1, <2>2 DEF Parse, TypeInv, RxTypes
<1>2. ASSUME WriteLength
      PROVE  RxTypes'
  BY <1>2 DEF WriteLength, TypeInv, RxTypes
<1>3. ASSUME WritePayload \/ Dispatch
      PROVE  RxTypes'
  <2>1. FrameOK(NoFrame)
    BY ConstantsAssumption DEF FrameOK, Frames, NoFrame
  <2> QED BY <1>3, <2>1 DEF WritePayload, Dispatch, Handled, TypeInv, RxTypes
<1>4. ASSUME Disable
      PROVE  RxTypes'
  BY <1>4 DEF Disable, TypeInv, RxTypes
<1>5. ASSUME \/ \E c \in Clients : Accept(c) \/ Answer(c) \/ Announce(c) \/ Spawn(c) \/ ClientRecv(c) \/
                      ClientClose(c) \/ Read(c) \/ ReadFails(c) \/ Push(c) \/ Pushed(c) \/
                      Deactivate(c) \/ SayClose(c) \/ Sleep(c) \/ Fill(c) \/ Loop(c) \/ Send(c) \/
                      Flush(c) \/ Doze(c) \/ TakeLength(c) \/ TakePayload(c) \/ TimesOut(c) \/
                      Forward(c) \/ Stops(c)
             \/ \E c \in Clients, n \in 1 .. MaxLen : ClientSend(c, n)
             \/ \E f \in HostFrames : HostSend(f)
             \/ Enable
             \/ UNCHANGED vars
      PROVE  UNCHANGED <<rx, frame, seenActive, stump>>
  <2>1. CASE \E c \in Clients : Accept(c) \/ Answer(c) \/ Announce(c) \/ Spawn(c) \/ ClientRecv(c) \/ ClientClose(c)
    BY <2>1 DEF Accept, Answer, Announce, Spawn, ClientRecv, ClientClose, channelVars, clientVars,
           forwardVars, hostVars, readerVars, rxVars, senderVars, usbVars, SendOpen, SendData
  <2>2. CASE \E c \in Clients : Read(c) \/ ReadFails(c) \/ Push(c) \/ Pushed(c) \/ Deactivate(c) \/ SayClose(c)
    BY <2>2 DEF Read, ReadFails, Push, Pushed, Deactivate, SayClose, channelVars, clientVars,
           forwardVars, hostVars, readerVars, rxVars, senderVars, usbVars, SendOpen, SendData
  <2>3. CASE \E c \in Clients : Sleep(c) \/ Fill(c) \/ Loop(c) \/ Send(c) \/ Flush(c) \/ Doze(c)
    BY <2>3 DEF Sleep, Fill, Loop, Send, Flush, Doze, channelVars, clientVars, forwardVars,
           hostVars, readerVars, rxVars, senderVars, usbVars, SendOpen, SendData
  <2>4. CASE \E c \in Clients : TakeLength(c) \/ TakePayload(c) \/ TimesOut(c) \/ Forward(c) \/ Stops(c)
    BY <2>4 DEF TakeLength, TakePayload, TimesOut, Forward, Stops, channelVars, clientVars,
           forwardVars, hostVars, readerVars, rxVars, senderVars, usbVars, SendOpen, SendData
  <2>5. CASE \/ \E c \in Clients, n \in 1 .. MaxLen : ClientSend(c, n)
             \/ \E f \in HostFrames : HostSend(f)
             \/ Enable
             \/ UNCHANGED vars
    BY <2>5 DEF ClientSend, HostSend, Enable, vars, channelVars, clientVars, forwardVars,
           hostVars, readerVars, rxVars, senderVars, usbVars, SendOpen, SendData
  <2> QED BY <1>5, <2>1, <2>2, <2>3, <2>4, <2>5
<1>6. UNCHANGED <<rx, frame, seenActive, stump>> => RxTypes'
  BY DEF TypeInv, RxTypes
<1> QED BY <1>1, <1>2, <1>3, <1>4, <1>5, <1>6 DEF Next, Reader, Sender, Forwarder, Receiver

(* Types of the pipe. *)
LEMMA UsbTypesKept ==
    ASSUME TypeInv, [Next]_vars
    PROVE  UsbTypes'
<1>1. ASSUME Parse
      PROVE  UsbTypes'
  <2>1. usbIn \in Seq(Frames) /\ usbIn # << >> /\ \A i \in DOMAIN usbIn : FrameOK(usbIn[i])
    BY <1>1 DEF Parse, TypeInv, UsbTypes
  <2>2. /\ usbIn' = Tail(usbIn) /\ usbIn' \in Seq(Frames)
        /\ \A i \in DOMAIN usbIn' : usbIn'[i] = usbIn[i + 1] /\ i + 1 \in DOMAIN usbIn
    <3>1. usbIn' = Tail(usbIn)
      BY <1>1 DEF Parse
    <3> QED BY <2>1, <3>1, TailElements
  <2> QED BY <1>1, <2>1, <2>2 DEF Parse, TypeInv, UsbTypes
<1>2. ASSUME NEW f \in HostFrames, HostSend(f)
      PROVE  UsbTypes'
  <2> DEFINE g == [f EXCEPT !.id = hostSent + 1]
  <2>1. hostSent \in 0 .. MaxFrames /\ hostSent < MaxFrames /\ MaxFrames \in Nat /\ MaxLen \in Nat \ {0}
    BY <1>2, ConstantsAssumption DEF HostSend, TypeInv, UsbTypes
  <2>2. FrameOK(g) /\ g \in Frames
    BY <2>1 DEF HostFrames, FrameOK, Frames
  <2>3. usbIn \in Seq(Frames) /\ usbIn' = Append(usbIn, g)
    BY <1>2 DEF HostSend, TypeInv, UsbTypes
  <2> HIDE DEF g
  <2>4. /\ usbIn' \in Seq(Frames)
        /\ \A i \in DOMAIN usbIn' : usbIn'[i] = g \/ (i \in DOMAIN usbIn /\ usbIn'[i] = usbIn[i])
    BY <2>2, <2>3, AppendElements
  <2>5. \A i \in DOMAIN usbIn' : FrameOK(usbIn'[i])
    BY <2>2, <2>4 DEF TypeInv, UsbTypes
  <2>6. hostSent' \in 0 .. MaxFrames
    <3>1. hostSent' = hostSent + 1
      BY <1>2 DEF HostSend
    <3> QED BY <2>1, <3>1
  <2>7. up' = up /\ replugs' = replugs
    BY <1>2 DEF HostSend
  <2> QED BY <2>4, <2>5, <2>6, <2>7 DEF TypeInv, UsbTypes
<1>3. ASSUME Disable
      PROVE  UsbTypes'
  <2>1. usbIn' = << >> /\ usbIn' \in Seq(Frames) /\ DOMAIN usbIn' = {}
    BY <1>3 DEF Disable
  <2>2. replugs' \in 0 .. MaxReplugs
    <3>1. replugs' = replugs + 1 /\ replugs < MaxReplugs /\ replugs \in 0 .. MaxReplugs /\ MaxReplugs \in Nat
      BY <1>3, ConstantsAssumption DEF Disable, TypeInv, UsbTypes
    <3> QED BY <3>1
  <2>3. up' = FALSE /\ hostSent' = hostSent
    BY <1>3 DEF Disable
  <2> QED BY <2>1, <2>2, <2>3 DEF TypeInv, UsbTypes
<1>4. ASSUME Enable
      PROVE  UsbTypes'
  BY <1>4 DEF Enable, TypeInv, UsbTypes
<1>5. ASSUME \/ \E c \in Clients : Accept(c) \/ Answer(c) \/ Announce(c) \/ Spawn(c) \/ ClientRecv(c) \/
                      ClientClose(c) \/ Read(c) \/ ReadFails(c) \/ Push(c) \/ Pushed(c) \/
                      Deactivate(c) \/ SayClose(c) \/ Sleep(c) \/ Fill(c) \/ Loop(c) \/ Send(c) \/
                      Flush(c) \/ Doze(c) \/ TakeLength(c) \/ TakePayload(c) \/ TimesOut(c) \/
                      Forward(c) \/ Stops(c)
             \/ \E c \in Clients, n \in 1 .. MaxLen : ClientSend(c, n)
             \/ WriteLength \/ WritePayload \/ Dispatch
             \/ UNCHANGED vars
      PROVE  UNCHANGED <<up, usbIn, hostSent, replugs>>
  <2>1. CASE \E c \in Clients : Accept(c) \/ Answer(c) \/ Announce(c) \/ Spawn(c) \/ ClientRecv(c) \/ ClientClose(c)
    BY <2>1 DEF Accept, Answer, Announce, Spawn, ClientRecv, ClientClose, channelVars, clientVars,
           forwardVars, hostVars, readerVars, rxVars, senderVars, usbVars, WriteRing, Handled,
           SendOpen, SendData
  <2>2. CASE \E c \in Clients : Read(c) \/ ReadFails(c) \/ Push(c) \/ Pushed(c) \/ Deactivate(c) \/ SayClose(c)
    BY <2>2 DEF Read, ReadFails, Push, Pushed, Deactivate, SayClose, channelVars, clientVars,
           forwardVars, hostVars, readerVars, rxVars, senderVars, usbVars, WriteRing, Handled,
           SendOpen, SendData
  <2>3. CASE \E c \in Clients : Sleep(c) \/ Fill(c) \/ Loop(c) \/ Send(c) \/ Flush(c) \/ Doze(c)
    BY <2>3 DEF Sleep, Fill, Loop, Send, Flush, Doze, channelVars, clientVars, forwardVars,
           hostVars, readerVars, rxVars, senderVars, usbVars, WriteRing, Handled, SendOpen,
           SendData
  <2>4. CASE \E c \in Clients : TakeLength(c) \/ TakePayload(c) \/ TimesOut(c) \/ Forward(c) \/ Stops(c)
    BY <2>4 DEF TakeLength, TakePayload, TimesOut, Forward, Stops, channelVars, clientVars,
           forwardVars, hostVars, readerVars, rxVars, senderVars, usbVars, WriteRing, Handled,
           SendOpen, SendData
  <2>5. CASE \/ \E c \in Clients, n \in 1 .. MaxLen : ClientSend(c, n)
             \/ WriteLength \/ WritePayload \/ Dispatch
             \/ UNCHANGED vars
    BY <2>5 DEF ClientSend, WriteLength, WritePayload, Dispatch, vars, channelVars, clientVars,
           forwardVars, hostVars, readerVars, rxVars, senderVars, usbVars, WriteRing, Handled,
           SendOpen, SendData
  <2> QED BY <1>5, <2>1, <2>2, <2>3, <2>4, <2>5
<1>6. UNCHANGED <<up, usbIn, hostSent, replugs>> => UsbTypes'
  BY DEF TypeInv, UsbTypes
<1> QED BY <1>1, <1>2, <1>3, <1>4, <1>5, <1>6 DEF Next, Reader, Sender, Forwarder, Receiver

(* Types of the host's bytes. *)
LEMMA HostTypesKept ==
    ASSUME TypeInv, [Next]_vars
    PROVE  HostTypes'
<1>1. ASSUME NEW c \in Clients, Send(c) \/ Flush(c)
      PROVE  HostTypes'
  <2>1. cur[c] \in Seq(Bytes) /\ got \in [Clients -> Seq(Bytes)]
    BY DEF TypeInv, SenderTypes, HostTypes
  <2>2. got[c] \o cur[c] \in Seq(Bytes)
    BY <2>1, ConcatElements
  <2>3. got' = got \/ got' = [got EXCEPT ![c] = @ \o cur[c]]
    BY <1>1 DEF Send, Flush, SendData
  <2> QED BY <2>1, <2>2, <2>3 DEF HostTypes
<1>2. ASSUME \/ \E c \in Clients : Accept(c) \/ Answer(c) \/ Announce(c) \/ Spawn(c) \/ ClientRecv(c) \/
                      ClientClose(c) \/ Read(c) \/ ReadFails(c) \/ Push(c) \/ Pushed(c) \/
                      Deactivate(c) \/ SayClose(c) \/ Sleep(c) \/ Fill(c) \/ Loop(c) \/ Doze(c) \/
                      TakeLength(c) \/ TakePayload(c) \/ TimesOut(c) \/ Forward(c) \/ Stops(c)
             \/ \E c \in Clients, n \in 1 .. MaxLen : ClientSend(c, n)
             \/ \E f \in HostFrames : HostSend(f)
             \/ Parse \/ WriteLength \/ WritePayload \/ Dispatch \/ Disable \/ Enable
             \/ UNCHANGED vars
      PROVE  UNCHANGED <<got>>
  <2>1. CASE \E c \in Clients : Accept(c) \/ Answer(c) \/ Announce(c) \/ Spawn(c) \/ ClientRecv(c) \/ ClientClose(c)
    BY <2>1 DEF Accept, Answer, Announce, Spawn, ClientRecv, ClientClose, channelVars, clientVars,
           forwardVars, hostVars, readerVars, rxVars, senderVars, usbVars, WriteRing, Handled,
           SendOpen
  <2>2. CASE \E c \in Clients : Read(c) \/ ReadFails(c) \/ Push(c) \/ Pushed(c) \/ Deactivate(c) \/ SayClose(c)
    BY <2>2 DEF Read, ReadFails, Push, Pushed, Deactivate, SayClose, channelVars, clientVars,
           forwardVars, hostVars, readerVars, rxVars, senderVars, usbVars, WriteRing, Handled,
           SendOpen
  <2>3. CASE \E c \in Clients : Sleep(c) \/ Fill(c) \/ Loop(c) \/ Doze(c) \/ TakeLength(c) \/ TakePayload(c)
    BY <2>3 DEF Sleep, Fill, Loop, Doze, TakeLength, TakePayload, channelVars, clientVars,
           forwardVars, hostVars, readerVars, rxVars, senderVars, usbVars, WriteRing, Handled,
           SendOpen
  <2>4. CASE \E c \in Clients : TimesOut(c) \/ Forward(c) \/ Stops(c)
    BY <2>4 DEF TimesOut, Forward, Stops, channelVars, clientVars, forwardVars, hostVars,
           readerVars, rxVars, senderVars, usbVars, WriteRing, Handled, SendOpen
  <2>5. CASE \/ \E c \in Clients, n \in 1 .. MaxLen : ClientSend(c, n)
             \/ \E f \in HostFrames : HostSend(f)
             \/ Parse \/ WriteLength \/ WritePayload \/ Dispatch \/ Disable \/ Enable
             \/ UNCHANGED vars
    BY <2>5 DEF ClientSend, HostSend, Parse, WriteLength, WritePayload, Dispatch, Disable, Enable,
           vars, channelVars, clientVars, forwardVars, hostVars, readerVars, rxVars, senderVars,
           usbVars, WriteRing, Handled, SendOpen
  <2> QED BY <1>2, <2>1, <2>2, <2>3, <2>4, <2>5
<1>3. UNCHANGED <<got>> => HostTypes'
  BY DEF TypeInv, HostTypes
<1> QED BY <1>1, <1>2, <1>3 DEF Next, Reader, Sender, Forwarder, Receiver

(* Types of the history. *)
LEMMA MishapTypesKept ==
    ASSUME TypeInv, [Next]_vars
    PROVE  MishapTypes'
<1>1. ASSUME NEW c \in Clients, Accept(c)
      PROVE  MishapTypes'
  BY <1>1 DEF Accept, TypeInv, MishapTypes
<1>2. ASSUME Parse \/ Disable
      PROVE  MishapTypes'
  BY <1>2 DEF Parse, Disable, TypeInv, MishapTypes
<1>3. ASSUME WriteLength \/ WritePayload
      PROVE  MishapTypes'
  BY <1>3 DEF WriteLength, WritePayload, WriteRing, Overruns, TypeInv, MishapTypes
<1>4. ASSUME \/ \E c \in Clients : Answer(c) \/ Announce(c) \/ Spawn(c) \/ ClientRecv(c) \/ ClientClose(c) \/
                      Read(c) \/ ReadFails(c) \/ Push(c) \/ Pushed(c) \/ Deactivate(c) \/
                      SayClose(c) \/ Sleep(c) \/ Fill(c) \/ Loop(c) \/ Send(c) \/ Flush(c) \/
                      Doze(c) \/ TakeLength(c) \/ TakePayload(c) \/ TimesOut(c) \/ Forward(c) \/
                      Stops(c)
             \/ \E c \in Clients, n \in 1 .. MaxLen : ClientSend(c, n)
             \/ \E f \in HostFrames : HostSend(f)
             \/ Dispatch \/ Enable
             \/ UNCHANGED vars
      PROVE  UNCHANGED <<mishaps>>
  <2>1. CASE \E c \in Clients : Answer(c) \/ Announce(c) \/ Spawn(c) \/ ClientRecv(c) \/ ClientClose(c) \/ Read(c)
    BY <2>1 DEF Answer, Announce, Spawn, ClientRecv, ClientClose, Read, channelVars, clientVars,
           forwardVars, hostVars, readerVars, rxVars, senderVars, usbVars, Handled, SendOpen,
           SendData
  <2>2. CASE \E c \in Clients : ReadFails(c) \/ Push(c) \/ Pushed(c) \/ Deactivate(c) \/ SayClose(c) \/ Sleep(c)
    BY <2>2 DEF ReadFails, Push, Pushed, Deactivate, SayClose, Sleep, channelVars, clientVars,
           forwardVars, hostVars, readerVars, rxVars, senderVars, usbVars, Handled, SendOpen,
           SendData
  <2>3. CASE \E c \in Clients : Fill(c) \/ Loop(c) \/ Send(c) \/ Flush(c) \/ Doze(c) \/ TakeLength(c)
    BY <2>3 DEF Fill, Loop, Send, Flush, Doze, TakeLength, channelVars, clientVars, forwardVars,
           hostVars, readerVars, rxVars, senderVars, usbVars, Handled, SendOpen, SendData
  <2>4. CASE \E c \in Clients : TakePayload(c) \/ TimesOut(c) \/ Forward(c) \/ Stops(c)
    BY <2>4 DEF TakePayload, TimesOut, Forward, Stops, channelVars, clientVars, forwardVars,
           hostVars, readerVars, rxVars, senderVars, usbVars, Handled, SendOpen, SendData
  <2>5. CASE \/ \E c \in Clients, n \in 1 .. MaxLen : ClientSend(c, n)
             \/ \E f \in HostFrames : HostSend(f)
             \/ Dispatch \/ Enable
             \/ UNCHANGED vars
    BY <2>5 DEF ClientSend, HostSend, Dispatch, Enable, vars, channelVars, clientVars,
           forwardVars, hostVars, readerVars, rxVars, senderVars, usbVars, Handled, SendOpen,
           SendData
  <2> QED BY <1>4, <2>1, <2>2, <2>3, <2>4, <2>5
<1>5. UNCHANGED <<mishaps>> => MishapTypes'
  BY DEF TypeInv, MishapTypes
<1> QED BY <1>1, <1>2, <1>3, <1>4, <1>5 DEF Next, Reader, Sender, Forwarder, Receiver

(* Every step keeps the types. *)
LEMMA TypesKept ==
    ASSUME TypeInv, [Next]_vars
    PROVE  TypeInv'
BY ChannelTypesKept, ClientTypesKept, DeliveryTypesKept, ReaderTypesKept, SenderTypesKept,
   ForwardTypesKept, RxTypesKept, UsbTypesKept, HostTypesKept, MishapTypesKept DEF TypeInv

(* The types hold at first. *)
LEMMA InitTypes ==
    ASSUME Init
    PROVE  TypeInv
<1>1. /\ << >> \in Seq(Bytes) /\ << >> \in Seq(Seq(Bytes)) /\ << >> \in Seq(RxUnits) /\ << >> \in Seq(Frames)
      /\ << >> \in Seq(Seq(RxUnits)) /\ Len(<< >>) = 0
  OBVIOUS
<1>2. ChannelTypes
  <2>1. RingSize \in Nat /\ txRing = << >> /\ rxRing = << >>
    BY ConstantsAssumption DEF Init
  <2>2. Len(txRing) <= RingSize /\ Len(rxRing) <= RingSize
    BY <2>1, <1>1
  <2> QED BY <1>1, <2>1, <2>2 DEF Init, ChannelTypes
<1>7. ReaderTypes /\ HostTypes /\ MishapTypes
  BY <1>1 DEF Init, ReaderTypes, HostTypes, MishapTypes
<1>3. ClientTypes /\ DeliveryTypes
  <2>1. 0 \in 0 .. MaxUnits /\ 0 \in Nat /\ 0 - 0 \in 0 .. SocketSize
    BY ConstantsAssumption
  <2> QED BY <1>1, <2>1 DEF Init, ClientTypes, DeliveryTypes, Unread
<1>4. SenderTypes /\ ForwardTypes
  BY <1>1, ConstantsAssumption DEF Init, SenderTypes, ForwardTypes
<1>5. RxTypes
  <2>1. FrameOK(NoFrame)
    BY ConstantsAssumption DEF FrameOK, Frames, NoFrame
  <2> QED BY <2>1 DEF Init, RxTypes
<1>6. UsbTypes
  <2>1. DOMAIN << >> = {} /\ 0 \in 0 .. MaxFrames /\ 0 \in 0 .. MaxReplugs
    BY ConstantsAssumption
  <2> QED BY <1>1, <2>1 DEF Init, UsbTypes
<1> QED BY <1>2, <1>3, <1>4, <1>5, <1>6, <1>7 DEF TypeInv

(* The types, thread by thread, are those the run checks. *)
LEMMA TypesOK ==
    ASSUME TypeInv
    PROVE  TypeOK
<1>1. \A c \in Clients :
          /\ delivered[c] \in Seq(Seq(RxUnits))
          /\ {cur[c], nxt[c]} \subseteq Seq(Bytes)
          /\ Len(cur[c]) \in 0 .. MaxPayload /\ Len(nxt[c]) \in 0 .. MaxPayload
  BY ConstantsAssumption DEF TypeInv, DeliveryTypes, SenderTypes
<1>2. frame \in Frames
  BY DEF TypeInv, RxTypes, FrameOK
<1> QED BY <1>1, <1>2 DEF TypeOK, TypeInv, ChannelTypes, ClientTypes, DeliveryTypes, ReaderTypes, SenderTypes,
           ForwardTypes, RxTypes, UsbTypes, MishapTypes

(* usbd's variables have their types: the rings never hold more than         *)
(* RING_SIZE, a buffer no more than USB_MAX_PAYLOAD and a socket no more than *)
(* it takes, whatever the threads do and in whatever order.                  *)
THEOREM TypeCorrect == Spec => []TypeOK
<1>1. Init => TypeInv
  BY InitTypes
<1>2. TypeInv /\ [Next]_vars => TypeInv'
  BY TypesKept
<1>3. TypeInv => TypeOK
  BY TypesOK
<1> QED BY <1>1, <1>2, <1>3, PTL DEF Spec

-----------------------------------------------------------------------------
(* Every step keeps who has the channel and what the threads hold. *)

(* A client has nothing until it is accepted. *)
LEMMA NewKept ==
    ASSUME TypeInv, NewInv, [Next]_vars
    PROVE  NewInv'
<1> SUFFICES ASSUME NEW d \in Clients, client'[d] = "new"
             PROVE  Fresh(d)'
  BY DEF NewInv
<1> USE DEF NewInv, Fresh
<1>1. ASSUME NEW c \in Clients, Accept(c) \/ Answer(c) \/ Announce(c) \/ Spawn(c)
      PROVE  Fresh(d)'
  <2>1. c # d /\ client[d] = "new"
    BY <1>1 DEF Accept, Answer, Announce, Spawn, clientVars, TypeInv, ClientTypes
  <2>2. CASE Accept(c)
    BY <2>2, <2>1 DEF Accept, channelVars, clientVars, readerVars, senderVars, forwardVars, hostVars
  <2>3. CASE Answer(c)
    BY <2>3, <2>1 DEF Answer, channelVars, clientVars, readerVars, senderVars, forwardVars, hostVars
  <2>4. CASE Announce(c)
    BY <2>4, <2>1 DEF Announce, SendOpen, channelVars, clientVars, readerVars, senderVars, forwardVars, hostVars
  <2>5. CASE Spawn(c)
    BY <2>5, <2>1 DEF Spawn, channelVars, clientVars, readerVars, senderVars, forwardVars, hostVars,
       TypeInv, ReaderTypes, SenderTypes, ForwardTypes
  <2> QED BY <1>1, <2>2, <2>3, <2>4, <2>5
<1>2. ASSUME NEW c \in Clients, (\E n \in 1 .. MaxLen : ClientSend(c, n)) \/ ClientRecv(c) \/ ClientClose(c)
      PROVE  Fresh(d)'
  <2>1. c # d /\ client[d] = "new"
    BY <1>2 DEF ClientSend, ClientRecv, ClientClose, TypeInv, ClientTypes
  <2> QED BY ZenonT(30), <1>2, <2>1 DEF ClientSend, ClientRecv, ClientClose, channelVars, readerVars, senderVars, forwardVars, hostVars,
             TypeInv, ClientTypes
<1>3. ASSUME NEW c \in Clients, Reader(c)
      PROVE  Fresh(d)'
  <2>1. c # d /\ client[d] = "new"
    BY <1>3 DEF Reader, Read, ReadFails, Push, Pushed, Deactivate, SayClose, clientVars
  <2> QED BY <1>3, <2>1 DEF Reader, Read, ReadFails, Push, Pushed, Deactivate, SayClose, Woken,
             channelVars, clientVars, senderVars, forwardVars, hostVars, TypeInv, ClientTypes, ReaderTypes
<1>4. ASSUME NEW c \in Clients, Sender(c)
      PROVE  Fresh(d)'
  <2>1. c # d /\ client[d] = "new"
    BY <1>4 DEF Sender, Sleep, Fill, Loop, Send, Flush, clientVars
  <2> QED BY <1>4, <2>1 DEF Sender, Sleep, Fill, Loop, Send, Flush, SendData,
             channelVars, clientVars, readerVars, forwardVars, hostVars, TypeInv, SenderTypes, HostTypes
<1>5. ASSUME NEW c \in Clients, Forwarder(c)
      PROVE  Fresh(d)'
  <2>1. c # d /\ client[d] = "new"
    BY <1>5 DEF Forwarder, Doze, TakeLength, TakePayload, TimesOut, Forward, Stops, clientVars
  <2> QED BY <1>5, <2>1 DEF Forwarder, Doze, TakeLength, TakePayload, TimesOut, Forward, Stops,
             channelVars, clientVars, readerVars, senderVars, hostVars, TypeInv, ForwardTypes, DeliveryTypes
<1>6. ASSUME Receiver \/ (\E f \in HostFrames : HostSend(f)) \/ Disable \/ Enable
      PROVE  Fresh(d)'
  <2>1. /\ client' = client /\ sock' = sock /\ reader' = reader /\ sender' = sender /\ held' = held
        /\ inbox' = inbox /\ got' = got /\ written' = written /\ delivered' = delivered
        /\ forwarder' = forwarder \/ forwarder' = Woken(forwarder)
    BY <1>6 DEF Receiver, Parse, WriteLength, WritePayload, WriteRing, Dispatch, HostSend, Disable, Enable,
       channelVars, clientVars, readerVars, senderVars, forwardVars, hostVars
  <2> QED BY <2>1 DEF Woken
<1>7. CASE UNCHANGED vars
  BY <1>7 DEF vars, channelVars, clientVars, readerVars, senderVars, forwardVars, hostVars
<1> QED BY <1>1, <1>2, <1>3, <1>4, <1>5, <1>6, <1>7 DEF Next

(* The threads of a connection begin once. *)
LEMMA SpawnKept ==
    ASSUME TypeInv, NewInv, SpawnInv, [Next]_vars
    PROVE  SpawnInv'
<1> USE DEF SpawnInv
<1>1. ASSUME NEW c \in Clients, Accept(c)
      PROVE  SpawnInv'
  BY <1>1 DEF Accept, readerVars, NewInv, Fresh, TypeInv, SenderTypes, ForwardTypes
<1>2. ASSUME NEW c \in Clients, Answer(c) \/ Announce(c) \/ Spawn(c)
      PROVE  SpawnInv'
  BY <1>2 DEF Answer, Announce, Spawn, channelVars, readerVars, senderVars, forwardVars
<1>3. ASSUME NEW c \in Clients, (\E n \in 1 .. MaxLen : ClientSend(c, n)) \/ ClientRecv(c) \/ ClientClose(c)
      PROVE  SpawnInv'
  BY <1>3 DEF ClientSend, ClientRecv, ClientClose, channelVars, readerVars, senderVars, forwardVars
<1>4. ASSUME NEW c \in Clients, Reader(c)
      PROVE  SpawnInv'
  <2>1. reader[c] # "none"
    BY <1>4 DEF Reader, Read, ReadFails, Push, Pushed, Deactivate, SayClose
  <2> QED BY <1>4, <2>1 DEF Reader, Read, ReadFails, Push, Pushed, Deactivate, SayClose, Woken,
             channelVars, senderVars, forwardVars, TypeInv, ReaderTypes
<1>5. ASSUME NEW c \in Clients, Sender(c)
      PROVE  SpawnInv'
  <2>1. sender[c] # "none"
    BY <1>5 DEF Sender, Sleep, Fill, Loop, Send, Flush
  <2> QED BY <1>5, <2>1 DEF Sender, Sleep, Fill, Loop, Send, Flush, channelVars, readerVars, forwardVars, TypeInv, SenderTypes
<1>6. ASSUME NEW c \in Clients, Forwarder(c)
      PROVE  SpawnInv'
  <2>1. forwarder[c] # "none"
    BY <1>6 DEF Forwarder, Doze, TakeLength, TakePayload, TimesOut, Forward, Stops
  <2> QED BY <1>6, <2>1 DEF Forwarder, Doze, TakeLength, TakePayload, TimesOut, Forward, Stops,
             channelVars, readerVars, senderVars, TypeInv, ForwardTypes
<1>7. ASSUME Receiver \/ (\E f \in HostFrames : HostSend(f)) \/ Disable \/ Enable
      PROVE  SpawnInv'
  BY <1>7 DEF Receiver, Parse, WriteLength, WritePayload, WriteRing, Dispatch, HostSend, Disable, Enable, Woken,
     channelVars, readerVars, senderVars, forwardVars
<1>8. CASE UNCHANGED vars
  BY <1>8 DEF vars, channelVars, readerVars, senderVars, forwardVars
<1> QED BY <1>1, <1>2, <1>3, <1>4, <1>5, <1>6, <1>7, <1>8 DEF Next

(* A thread that has taken nothing holds nothing. *)
LEMMA HandKept ==
    ASSUME TypeInv, SpawnInv, HandInv, [Next]_vars
    PROVE  HandInv'
<1> USE DEF HandInv
<1>1. ASSUME NEW c \in Clients, Accept(c) \/ Answer(c) \/ Announce(c) \/ Spawn(c)
      PROVE  HandInv'
  <2>1. reader' = reader \/ reader' = [reader EXCEPT ![c] = "push"]
    BY <1>1 DEF Accept, Answer, Announce, Spawn, readerVars
  <2>2. held' = held /\ cur' = cur /\ nxt' = nxt
    BY <1>1 DEF Accept, Answer, Announce, Spawn, readerVars, senderVars
  <2>3. \A d \in Clients : sender'[d] = sender[d] \/ sender'[d] = "lost" \/ (sender[d] = "none" /\ sender'[d] = "idle")
                           \/ (Spawn(c) /\ d = c)
    BY <1>1 DEF Accept, Answer, Announce, Spawn, senderVars, TypeInv, SenderTypes
  <2>4. Spawn(c) => sender[c] = "none"
    BY DEF Spawn, SpawnInv
  <2> QED BY <2>1, <2>2, <2>3, <2>4 DEF TypeInv, ReaderTypes
<1>2. ASSUME NEW c \in Clients, (\E n \in 1 .. MaxLen : ClientSend(c, n)) \/ ClientRecv(c) \/ ClientClose(c)
      PROVE  HandInv'
  BY <1>2 DEF ClientSend, ClientRecv, ClientClose, readerVars, senderVars
<1>3. ASSUME NEW c \in Clients, Reader(c)
      PROVE  HandInv'
  <2>1. cur' = cur /\ nxt' = nxt /\ (sender' = sender \/ sender' = Woken(sender))
    BY <1>3 DEF Reader, Read, ReadFails, Push, Pushed, Deactivate, SayClose, senderVars
  <2>2. ASSUME NEW d \in Clients, reader'[d] \in {"none", "read"}
        PROVE  held'[d] = << >>
    BY <1>3, <2>2 DEF Reader, Read, ReadFails, Push, Pushed, Deactivate, SayClose, TypeInv, ReaderTypes
  <2> QED BY <2>1, <2>2 DEF Woken
<1>4. ASSUME NEW c \in Clients, Sender(c)
      PROVE  HandInv'
  <2>1. reader' = reader /\ held' = held
    BY <1>4 DEF Sender, Sleep, Fill, Loop, Send, Flush, readerVars
  <2>2. ASSUME NEW d \in Clients
        PROVE  /\ sender'[d] \in {"none", "idle", "asleep"} => cur'[d] = << >>
               /\ sender'[d] \in {"none", "idle", "asleep", "top", "sendlast"} => nxt'[d] = << >>
    <3>1. CASE Sleep(c)
      BY <3>1 DEF Sleep, TypeInv, SenderTypes
    <3>2. CASE Fill(c)
      BY <3>2 DEF Fill, TypeInv, SenderTypes
    <3>3. CASE Loop(c)
      <4>1. txRing = << >> => SubSeq(txRing, 1, Chunk) = << >>
        <5>1. txRing \in Seq(Bytes) /\ Len(txRing) <= RingSize
          BY DEF TypeInv, ChannelTypes
        <5>2. Chunk \in 0 .. Len(txRing) /\ SubSeq(txRing, 1, Chunk) \in Seq(Bytes) /\ Len(SubSeq(txRing, 1, Chunk)) = Chunk
          BY <5>1, ChunkElements
        <5>3. txRing = << >> => Len(SubSeq(txRing, 1, Chunk)) = 0
          BY <5>2
        <5> QED BY <5>2, <5>3
      <4> QED BY <3>3, <4>1 DEF Loop, TypeInv, SenderTypes
    <3>4. CASE Send(c)
      BY <3>4 DEF Send, TypeInv, SenderTypes
    <3>5. CASE Flush(c)
      BY <3>5 DEF Flush, TypeInv, SenderTypes
    <3> QED BY <1>4, <3>1, <3>2, <3>3, <3>4, <3>5 DEF Sender
  <2> QED BY <2>1, <2>2
<1>5. ASSUME (\E c \in Clients : Forwarder(c)) \/ Receiver \/ (\E f \in HostFrames : HostSend(f)) \/ Disable \/ Enable
      PROVE  HandInv'
  <2>1. UNCHANGED <<readerVars, senderVars>>
    BY <1>5 DEF Forwarder, Doze, TakeLength, TakePayload, TimesOut, Forward, Stops,
       Receiver, Parse, WriteLength, WritePayload, Dispatch, HostSend, Disable, Enable
  <2> QED BY <2>1 DEF readerVars, senderVars
<1>6. CASE UNCHANGED vars
  BY <1>6 DEF vars, readerVars, senderVars
<1> QED BY <1>1, <1>2, <1>3, <1>4, <1>5, <1>6 DEF Next

(* Only the connection that has the channel has threads that act. *)
LEMMA ActorHasChannel ==
    ASSUME QuietInv, Uncrowded, NEW c \in Clients, Reader(c) \/ Sender(c) \/ Forwarder(c)
    PROVE  c = sock
<1>1. (reader[c] \notin Over /\ ~Spins(c)) \/ sender[c] \notin Over \/ forwarder[c] \notin Over
  BY DEF Over, Spins, Reader, Read, ReadFails, Push, Pushed, Deactivate, SayClose, Sender, Sleep, Fill, Loop, Send, Flush,
     Forwarder, Doze, TakeLength, TakePayload, TimesOut, Forward, Stops
<1> QED BY <1>1 DEF QuietInv, Quiet

(* What has spoiled a channel is not forgotten. *)
LEMMA MishapsStay ==
    ASSUME [Next]_vars
    PROVE  mishaps \subseteq mishaps'
<1>1. ASSUME NEW c \in Clients, Accept(c) \/ Answer(c) \/ Announce(c) \/ Spawn(c)
      PROVE  mishaps \subseteq mishaps'
  BY <1>1 DEF Accept, Answer, Announce, Spawn
<1>2. ASSUME NEW c \in Clients, (\E n \in 1 .. MaxLen : ClientSend(c, n)) \/ ClientRecv(c) \/ ClientClose(c)
      PROVE  mishaps \subseteq mishaps'
  BY <1>2 DEF ClientSend, ClientRecv, ClientClose
<1>3. ASSUME NEW c \in Clients, Reader(c)
      PROVE  mishaps \subseteq mishaps'
  BY <1>3 DEF Reader, Read, ReadFails, Push, Pushed, Deactivate, SayClose
<1>4. ASSUME NEW c \in Clients, Sender(c)
      PROVE  mishaps \subseteq mishaps'
  BY <1>4 DEF Sender, Sleep, Fill, Loop, Send, Flush
<1>5. ASSUME NEW c \in Clients, Forwarder(c)
      PROVE  mishaps \subseteq mishaps'
  BY <1>5 DEF Forwarder, Doze, TakeLength, TakePayload, TimesOut, Forward, Stops
<1>6. ASSUME Receiver
      PROVE  mishaps \subseteq mishaps'
  BY <1>6 DEF Receiver, Parse, WriteLength, WritePayload, WriteRing, Dispatch
<1>7. ASSUME (\E f \in HostFrames : HostSend(f)) \/ Disable \/ Enable
      PROVE  mishaps \subseteq mishaps'
  BY <1>7 DEF HostSend, Disable, Enable
<1>8. CASE UNCHANGED vars
  BY <1>8 DEF vars
<1> QED BY <1>1, <1>2, <1>3, <1>4, <1>5, <1>6, <1>7, <1>8 DEF Next

(* Threads of earlier connections stay off the channel. *)
LEMMA QuietKept ==
    ASSUME TypeInv, QuietInv, [Next]_vars
    PROVE  QuietInv'
<1>1. mishaps \subseteq mishaps'
  BY MishapsStay
<1> SUFFICES ASSUME Uncrowded, Uncrowded', NEW d \in Clients, d # sock'
             PROVE  Quiet(d)'
  BY <1>1 DEF QuietInv, Uncrowded
<1>2. d # sock => Quiet(d)
  BY DEF QuietInv
<1>3. ASSUME NEW c \in Clients, Accept(c)
      PROVE  Quiet(d)'
  <2>1. d # c /\ ~Lingers(d)
    BY <1>3 DEF Accept, Uncrowded
  <2>2. sender'[d] \in Over /\ forwarder'[d] \in Over
    BY <1>3, <2>1 DEF Accept, Lingers, Over, TypeInv, SenderTypes, ForwardTypes
  <2>3. reader'[d] \in Over \/ Spins(d)'
    BY <1>3, <2>1 DEF Accept, Lingers, Spins, Reset, Unread, readerVars, TypeInv, ClientTypes
  <2> QED BY <2>2, <2>3 DEF Quiet
<1>4. ASSUME NEW c \in Clients, Answer(c) \/ Announce(c) \/ Spawn(c)
      PROVE  Quiet(d)'
  <2>1. sock' = sock /\ c = sock
    BY <1>4 DEF Answer, Announce, Spawn, channelVars
  <2>2. UNCHANGED <<inbox, taken, delivered>> /\ client'[d] = client[d]
    BY <1>4, <2>1 DEF Answer, Announce, Spawn, clientVars, TypeInv, ClientTypes
  <2>3. reader'[d] = reader[d] /\ sender'[d] = sender[d] /\ forwarder'[d] = forwarder[d]
    BY <1>4, <2>1 DEF Answer, Announce, Spawn, readerVars, senderVars, forwardVars, TypeInv, ReaderTypes, SenderTypes,
       ForwardTypes
  <2> QED BY <1>2, <2>1, <2>2, <2>3 DEF Quiet, Spins, Reset, Unread
<1>5. ASSUME NEW c \in Clients, (\E n \in 1 .. MaxLen : ClientSend(c, n)) \/ ClientRecv(c) \/ ClientClose(c)
      PROVE  Quiet(d)'
  <2>1. /\ sock' = sock /\ reader' = reader /\ sender' = sender /\ forwarder' = forwarder /\ delivered' = delivered
        /\ client[c] = "open"
    BY <1>5 DEF ClientSend, ClientRecv, ClientClose, channelVars, readerVars, senderVars, forwardVars
  <2>2. CASE d = c
    BY <1>2, <2>1, <2>2 DEF Quiet, Spins
  <2>3. CASE d # c
    <3>1. client'[d] = client[d] /\ inbox'[d] = inbox[d] /\ taken'[d] = taken[d]
      BY <1>5, <2>3 DEF ClientSend, ClientRecv, ClientClose, TypeInv, ClientTypes, DeliveryTypes
    <3> QED BY <1>2, <2>1, <3>1 DEF Quiet, Spins, Reset, Unread
  <2> QED BY <2>2, <2>3
<1>6. ASSUME NEW c \in Clients, Reader(c)
      PROVE  Quiet(d)'
  <2>1. sock' = sock /\ c = sock
    BY <1>6, ActorHasChannel DEF Reader, Read, ReadFails, Push, Pushed, Deactivate, SayClose, channelVars
  <2>2. /\ client' = client /\ taken' = taken /\ delivered' = delivered /\ forwarder' = forwarder
        /\ reader'[d] = reader[d] /\ inbox'[d] = inbox[d] /\ (sender' = sender \/ sender' = Woken(sender))
    BY <1>6, <2>1 DEF Reader, Read, ReadFails, Push, Pushed, Deactivate, SayClose, clientVars, senderVars, forwardVars,
       TypeInv, ReaderTypes, ClientTypes
  <2> QED BY <1>2, <2>1, <2>2 DEF Quiet, Spins, Reset, Unread, Woken, Over
<1>7. ASSUME NEW c \in Clients, Sender(c)
      PROVE  Quiet(d)'
  <2>1. sock' = sock /\ c = sock
    BY <1>7, ActorHasChannel DEF Sender, Sleep, Fill, Loop, Send, Flush, channelVars
  <2>2. UNCHANGED <<client, inbox, taken, delivered, reader, forwarder>> /\ sender'[d] = sender[d]
    BY <1>7, <2>1 DEF Sender, Sleep, Fill, Loop, Send, Flush, clientVars, readerVars, forwardVars, TypeInv, SenderTypes
  <2> QED BY <1>2, <2>1, <2>2 DEF Quiet, Spins, Reset, Unread
<1>8. ASSUME NEW c \in Clients, Forwarder(c)
      PROVE  Quiet(d)'
  <2>1. sock' = sock /\ c = sock
    BY <1>8, ActorHasChannel DEF Forwarder, Doze, TakeLength, TakePayload, TimesOut, Forward, Stops, channelVars
  <2>2. UNCHANGED <<client, inbox, taken, reader, sender>> /\ forwarder'[d] = forwarder[d] /\ delivered'[d] = delivered[d]
    BY <1>8, <2>1 DEF Forwarder, Doze, TakeLength, TakePayload, TimesOut, Forward, Stops, clientVars, readerVars, senderVars,
       TypeInv, ForwardTypes, DeliveryTypes
  <2> QED BY <1>2, <2>1, <2>2 DEF Quiet, Spins, Reset, Unread
<1>9. ASSUME Receiver \/ (\E f \in HostFrames : HostSend(f)) \/ Disable \/ Enable
      PROVE  Quiet(d)'
  <2>1. /\ UNCHANGED <<sock, client, inbox, taken, delivered, reader, sender>>
        /\ forwarder' = forwarder \/ forwarder' = Woken(forwarder)
    BY <1>9 DEF Receiver, Parse, WriteLength, WritePayload, WriteRing, Dispatch, HostSend, Disable, Enable,
       channelVars, clientVars, readerVars, senderVars, forwardVars
  <2> QED BY <1>2, <2>1 DEF Quiet, Spins, Reset, Unread, Woken, Over
<1>10. CASE UNCHANGED vars
  BY <1>2, <1>10 DEF vars, channelVars, clientVars, readerVars, senderVars, forwardVars, Quiet, Spins, Reset, Unread
<1> QED BY <1>3, <1>4, <1>5, <1>6, <1>7, <1>8, <1>9, <1>10 DEF Next

-----------------------------------------------------------------------------
(* To the host. *)

(* Two stretches that follow each other are one. *)
LEMMA RunConcat ==
    ASSUME NEW S, NEW q \in Seq(S), NEW r \in Seq(S), NEW c, NEW b \in Nat, Run(q, c, b), Run(r, c, b + Len(q))
    PROVE  Run(q \o r, c, b)
<1> DEFINE s == q \o r
<1>1. /\ Len(q) \in Nat /\ Len(r) \in Nat /\ DOMAIN q = 1 .. Len(q) /\ DOMAIN r = 1 .. Len(r)
      /\ DOMAIN s = 1 .. Len(q) + Len(r)
      /\ \A i \in DOMAIN q : s[i] = q[i]
      /\ \A i \in DOMAIN r : s[Len(q) + i] = r[i]
  BY ConcatElements
<1> HIDE DEF s
<1>2. ASSUME NEW i \in DOMAIN s
      PROVE  s[i] = <<c, b + i>>
  <2>1. CASE i <= Len(q)
    BY <1>1, <2>1 DEF Run
  <2>2. CASE i > Len(q)
    <3>1. i - Len(q) \in DOMAIN r /\ Len(q) + (i - Len(q)) = i /\ (b + Len(q)) + (i - Len(q)) = b + i
      BY <1>1, <2>2
    <3>2. s[Len(q) + (i - Len(q))] = r[i - Len(q)] /\ r[i - Len(q)] = <<c, (b + Len(q)) + (i - Len(q))>>
      BY <1>1, <3>1 DEF Run
    <3> QED BY <3>1, <3>2
  <2> QED BY <1>1, <2>1, <2>2
<1> QED BY <1>2 DEF Run, s

(* The ring's first bytes go to a buffer. *)
LEMMA RunChunk ==
    ASSUME NEW S, txRing \in Seq(S), Len(txRing) <= RingSize, NEW c, NEW b \in Nat, Run(txRing, c, b)
    PROVE  /\ Run(SubSeq(txRing, 1, Chunk), c, b)
           /\ TakeChunk => Run(txRing', c, b + Chunk)
<1> DEFINE buf == SubSeq(txRing, 1, Chunk)
<1>1. /\ Chunk \in Nat
      /\ DOMAIN buf = 1 .. Chunk /\ \A i \in 1 .. Chunk : i \in DOMAIN txRing /\ buf[i] = txRing[i]
  BY ChunkElements
<1>2. TakeChunk => \A i \in DOMAIN txRing' : i \in Nat /\ Chunk + i \in DOMAIN txRing /\ txRing'[i] = txRing[Chunk + i]
  <2>1. Len(txRing) \in Nat
    OBVIOUS
  <2> QED BY <1>1, <2>1, ChunkElements
<1> HIDE DEF buf
<1>3. Run(buf, c, b)
  BY <1>1 DEF Run
<1>4. ASSUME TakeChunk, NEW i \in DOMAIN txRing'
      PROVE  txRing'[i] = <<c, (b + Chunk) + i>>
  <2>1. txRing'[i] = <<c, b + (Chunk + i)>> /\ i \in Nat
    BY <1>2, <1>4 DEF Run
  <2>2. b + (Chunk + i) = (b + Chunk) + i
    BY <1>1, <2>1
  <2> QED BY <2>1, <2>2
<1> QED BY <1>3, <1>4 DEF Run, buf

(* A message is begun from the front. *)
LEMMA RunFits ==
    ASSUME NEW S, NEW ring \in Seq(S), Len(ring) <= RingSize, NEW s \in Seq(S), NEW c, NEW b \in Nat, Run(s, c, b)
    PROVE  LET k == Len(Fits(ring, s)) IN
             /\ Run(Fits(ring, s), c, b)
             /\ Run(SubSeq(s, k + 1, Len(s)), c, b + k)
             /\ Len(SubSeq(s, k + 1, Len(s))) = Len(s) - k
             /\ k \in Nat
<1> DEFINE k == Len(Fits(ring, s))
           now == Fits(ring, s)
           later == SubSeq(s, k + 1, Len(s))
<1>1. /\ k \in 0 .. Len(s) /\ DOMAIN now = 1 .. k
      /\ \A i \in DOMAIN now : i \in DOMAIN s /\ now[i] = s[i]
  BY FitsElements
<1>2. /\ Len(s) \in Nat /\ k \in Nat /\ Len(later) = Len(s) - k /\ DOMAIN later = 1 .. Len(s) - k
      /\ \A i \in 1 .. Len(s) - k : k + i \in DOMAIN s /\ later[i] = s[k + i]
  <2> HIDE DEF k
  <2> QED BY <1>1, RestElements
<1> HIDE DEF k, now, later
<1>3. Run(now, c, b)
  BY <1>1 DEF Run
<1>4. ASSUME NEW i \in DOMAIN later
      PROVE  later[i] = <<c, (b + k) + i>>
  <2>1. later[i] = <<c, b + (k + i)>> /\ b + (k + i) = (b + k) + i
    BY <1>2 DEF Run
  <2> QED BY <2>1
<1> QED BY <1>2, <1>3, <1>4 DEF Run, k, now, later

(* A client writes one more message. *)
LEMMA MessagesAppend ==
    ASSUME NEW S, NEW q \in Seq(Seq(S)), NEW m \in Seq(S), m # << >>, NEW c, NEW b \in Nat, NEW w \in Nat,
           Messages(q, c, b, w), Run(m, c, w), \A e \in S : e[2] \in Nat
    PROVE  Messages(Append(q, m), c, b, w + Len(m))
<1> DEFINE p == Append(q, m)
<1>1. /\ Len(q) \in Nat /\ DOMAIN q = 1 .. Len(q) /\ DOMAIN p = 1 .. (Len(q) + 1) /\ Len(p) = Len(q) + 1
      /\ p # << >>
      /\ \A i \in DOMAIN q : p[i] = q[i]
      /\ p[Len(q) + 1] = m
  BY SMTT(30), AppendElements
<1>2. Start(m) = w
  <2>1. 1 \in DOMAIN m
    OBVIOUS
  <2>2. m[1] = <<c, w + 1>>
    BY <2>1 DEF Run
  <2> QED BY <2>2 DEF Start
<1> HIDE DEF p
<1>3. \A j \in DOMAIN p : p[j] # << >> /\ Run(p[j], c, Start(p[j]))
  BY SMTT(30), <1>1, <1>2 DEF Messages
<1>4. Start(p[1]) = b /\ Start(p[Len(p)]) + Len(p[Len(p)]) = w + Len(m)
  <2>1. CASE q = << >>
    <3>1. Len(q) = 0 /\ b = w
      BY <2>1 DEF Messages
    <3> QED BY <1>1, <1>2, <3>1
  <2>2. CASE q # << >>
    <3>1. 1 \in DOMAIN q
      BY <2>2
    <3> QED BY <1>1, <1>2, <2>2, <3>1 DEF Messages
  <2> QED BY <2>1, <2>2
<1>5. ASSUME NEW j \in DOMAIN p, j + 1 \in DOMAIN p
      PROVE  Start(p[j + 1]) = Start(p[j]) + Len(p[j])
  <2>1. CASE j + 1 \in DOMAIN q
    <3>1. j \in DOMAIN q
      BY <1>1, <2>1
    <3> QED BY <1>1, <2>1, <3>1 DEF Messages
  <2>2. CASE j + 1 \notin DOMAIN q
    <3>1. j = Len(q) /\ j \in DOMAIN q
      BY <1>1, <1>5, <2>2
    <3>2. Start(q[Len(q)]) + Len(q[Len(q)]) = w
      <4>1. q # << >>
        BY <3>1
      <4> QED BY <4>1 DEF Messages
    <3> QED BY <1>1, <1>2, <3>1, <3>2
  <2> QED BY <2>1, <2>2
<1> QED BY <1>1, <1>3, <1>4, <1>5 DEF Messages, p

(* The reader takes the first message. *)
LEMMA MessagesTail ==
    ASSUME NEW S, NEW q \in Seq(Seq(S)), q # << >>, NEW c, NEW b \in Nat, NEW w \in Nat, Messages(q, c, b, w)
    PROVE  /\ Run(Head(q), c, b)
           /\ Head(q) # << >>
           /\ Messages(Tail(q), c, b + Len(Head(q)), w)
<1> DEFINE p == Tail(q)
<1>1. /\ Head(q) = q[1] /\ 1 \in DOMAIN q /\ DOMAIN q = 1 .. Len(q) /\ Len(q) \in Nat \ {0}
      /\ p \in Seq(Seq(S)) /\ DOMAIN p = 1 .. (Len(q) - 1) /\ Len(p) = Len(q) - 1
      /\ \A i \in DOMAIN p : p[i] = q[i + 1]
  BY TailElements
<1>2. Start(q[1]) = b
  BY DEF Messages
<1>3. Run(Head(q), c, b) /\ Head(q) # << >>
  BY <1>1, <1>2 DEF Messages
<1> HIDE DEF p
<1>4. p = << >> <=> Len(q) = 1
  <2>1. p = << >> <=> Len(p) = 0
    BY <1>1, EmptySeq
  <2> QED BY <1>1, <2>1
<1>9. \A j \in DOMAIN p : j + 1 \in DOMAIN q
  BY ONLY SMTT(30), <1>1
<1>5. \A j \in DOMAIN p : p[j] # << >> /\ Run(p[j], c, Start(p[j]))
  BY <1>1, <1>9 DEF Messages
<1>6. ASSUME p # << >>
      PROVE  Start(p[1]) = b + Len(Head(q)) /\ Start(p[Len(p)]) + Len(p[Len(p)]) = w
  <2>1. 1 + 1 \in DOMAIN q /\ 1 \in DOMAIN p /\ Len(p) \in DOMAIN p /\ Len(p) + 1 = Len(q) /\ p[1] = q[1 + 1]
    <3>1. Len(q) > 1
      BY <1>1, <1>4, <1>6
    <3>2. 1 + 1 \in DOMAIN q /\ 1 \in DOMAIN p /\ Len(p) \in DOMAIN p /\ Len(p) + 1 = Len(q)
      BY <1>1, <3>1
    <3> QED BY <1>1, <3>2
  <2>2. Start(q[1 + 1]) = Start(q[1]) + Len(q[1])
    BY <1>1, <2>1 DEF Messages
  <2>3. p[Len(p)] = q[Len(q)]
    BY <1>1, <2>1
  <2>4. Start(q[Len(q)]) + Len(q[Len(q)]) = w
    BY DEF Messages
  <2> QED BY <1>1, <1>2, <2>1, <2>2, <2>3, <2>4
<1>7. ASSUME p = << >>
      PROVE  b + Len(Head(q)) = w
  <2>1. Len(q) = 1
    BY <1>4, <1>7
  <2> QED BY <1>1, <1>2, <2>1 DEF Messages
<1>8. ASSUME NEW j \in DOMAIN p, j + 1 \in DOMAIN p
      PROVE  Start(p[j + 1]) = Start(p[j]) + Len(p[j])
  <2>1. j + 1 \in DOMAIN q /\ (j + 1) + 1 \in DOMAIN q
    BY SMTT(30), <1>1, <1>8
  <2>2. Start(q[(j + 1) + 1]) = Start(q[j + 1]) + Len(q[j + 1])
    BY <2>1 DEF Messages
  <2> QED BY <1>1, <1>8, <2>2
<1> QED BY <1>3, <1>5, <1>6, <1>7, <1>8 DEF Messages, p

(* The buffers, the ring, what the reader holds and the socket are those of *)
(* the connection, whatever else moves.                                     *)
LEMMA SameToHost ==
    ASSUME NEW s \in Clients, ToHost(s),
           UNCHANGED <<got, cur, nxt, txRing, inbox, written, held>>,
           Sending(s)' => Sending(s), Reading(s)' => Reading(s)
    PROVE  ToHost(s)'
BY DEF ToHost, Sent, InBuffers, InRing, Taken, Run, Messages, Start

(* Counts of bytes. *)
LEMMA CountsAreNumbers ==
    ASSUME TypeInv, NEW c \in Clients
    PROVE  /\ Sent(c) \in Nat /\ Len(cur[c]) \in Nat /\ Len(nxt[c]) \in Nat /\ Len(txRing) \in Nat
           /\ Len(held[c]) \in Nat /\ written[c] \in Nat
           /\ InBuffers(c) \in Nat /\ InRing(c) \in Nat /\ Taken(c) \in Nat
           /\ got[c] \in Seq(Bytes) /\ cur[c] \in Seq(Bytes) /\ nxt[c] \in Seq(Bytes) /\ held[c] \in Seq(Bytes)
           /\ txRing \in Seq(Bytes) /\ Len(txRing) <= RingSize
           /\ inbox[c] \in Seq(Seq(Bytes))
<1>1. /\ got[c] \in Seq(Bytes) /\ cur[c] \in Seq(Bytes) /\ nxt[c] \in Seq(Bytes) /\ held[c] \in Seq(Bytes)
      /\ txRing \in Seq(Bytes) /\ Len(txRing) <= RingSize
      /\ inbox[c] \in Seq(Seq(Bytes)) /\ written[c] \in 0 .. MaxUnits
  BY DEF TypeInv, ChannelTypes, ClientTypes, ReaderTypes, SenderTypes, HostTypes
<1>2. /\ Sent(c) \in Nat /\ Len(cur[c]) \in Nat /\ Len(nxt[c]) \in Nat /\ Len(txRing) \in Nat
      /\ Len(held[c]) \in Nat /\ written[c] \in Nat
  BY <1>1 DEF Sent
<1>3. InBuffers(c) \in Nat
  BY <1>2 DEF InBuffers
<1>4. InRing(c) \in Nat
  BY <1>2, <1>3 DEF InRing
<1>5. Taken(c) \in Nat
  BY <1>2, <1>4 DEF Taken
<1> QED BY <1>1, <1>2, <1>3, <1>4, <1>5

(* A new connection begins with no bytes. *)
LEMMA AcceptToHost ==
    ASSUME TypeInv, NewInv, HandInv, NEW c \in Clients, Accept(c)
    PROVE  ToHost(c)'
<1>1. Fresh(c) /\ cur[c] = << >> /\ nxt[c] = << >>
  BY DEF Accept, NewInv, Fresh, HandInv
<1>2. /\ got'[c] = << >> /\ cur'[c] = << >> /\ nxt'[c] = << >> /\ txRing' = << >> /\ held'[c] = << >>
      /\ inbox'[c] = << >> /\ written'[c] = 0
  BY <1>1 DEF Accept, Fresh, hostVars, readerVars
<1>3. Len(<< >>) = 0 /\ DOMAIN << >> = {}
  OBVIOUS
<1>4. Taken(c)' = 0
  BY <1>2, <1>3 DEF Taken, InRing, InBuffers, Sent
<1>5. \A d, b : Run(<< >>, d, b)
  BY DEF Run
<1>6. Messages(<< >>, c, 0, 0)
  BY DEF Messages
<1> QED BY <1>2, <1>4, <1>5, <1>6 DEF ToHost, Run, Messages, Start

(* The sender sends a buffer and takes the other. *)
LEMMA SendToHost ==
    ASSUME TypeInv, NEW s \in Clients, ToHost(s), NEW n \in 1 .. MaxLen, ClientSend(s, n)
    PROVE  ToHost(s)'
<1> DEFINE m == [i \in 1 .. n |-> <<s, written[s] + i>>]
<1>1. /\ UNCHANGED <<got, cur, nxt, txRing, held, sender, reader>>
      /\ inbox'[s] = Append(inbox[s], m) /\ written'[s] = written[s] + n
  BY DEF ClientSend, channelVars, readerVars, senderVars, hostVars, TypeInv, ClientTypes
<1>2. MaxLen \in Nat /\ n \in Nat \ {0} /\ written[s] \in Nat /\ written[s] + n <= MaxUnits /\ MaxUnits \in Nat
  BY ConstantsAssumption, CountsAreNumbers DEF ClientSend
<1>3. m \in Seq(Bytes) /\ Len(m) = n /\ m # << >> /\ DOMAIN m = 1 .. n
  <2>1. \A i \in 1 .. n : <<s, written[s] + i>> \in Bytes
    BY <1>2 DEF Bytes
  <2>2. m \in Seq(Bytes) /\ Len(m) = n
    BY <1>2, <2>1
  <2> QED BY <1>2, <2>2
<1>4. Run(m, s, written[s])
  BY <1>3 DEF Run
<1> HIDE DEF m
<1>5. \A e \in Bytes : e[2] \in Nat
  BY DEF Bytes
<1>6. Taken(s) \in Nat /\ inbox[s] \in Seq(Seq(Bytes))
  BY CountsAreNumbers
<1>7. ASSUME Messages(inbox[s], s, Taken(s), written[s])
      PROVE  Messages(inbox'[s], s, Taken(s), written'[s])
  <2>1. Messages(Append(inbox[s], m), s, Taken(s), written[s] + Len(m))
    BY <1>2, <1>3, <1>4, <1>5, <1>6, <1>7, MessagesAppend
  <2> QED BY <1>1, <1>3, <2>1
<1>8. Taken(s)' = Taken(s) /\ InRing(s)' = InRing(s) /\ InBuffers(s)' = InBuffers(s) /\ Sent(s)' = Sent(s)
  BY <1>1 DEF Taken, InRing, InBuffers, Sent
<1>9. (Sending(s)' <=> Sending(s)) /\ (Reading(s)' <=> Reading(s))
  BY <1>1 DEF Sending, Reading
<1>10. Messages(inbox[s], s, Taken(s), written[s]) => Messages(inbox[s], s, Taken(s), written[s])'
  BY <1>7, <1>8 DEF Messages, Run, Start
<1> QED BY <1>1, <1>8, <1>9, <1>10 DEF ToHost, Run

(* The reader reads a message. *)
LEMMA ReadToHost ==
    ASSUME TypeInv, HandInv, NEW s \in Clients, ToHost(s), Read(s)
    PROVE  ToHost(s)'
<1>1. /\ UNCHANGED <<got, cur, nxt, txRing, written, sender>> /\ reader[s] = "read" /\ inbox[s] # << >>
      /\ inbox'[s] = Tail(inbox[s]) /\ held'[s] = Head(inbox[s])
  BY DEF Read, channelVars, senderVars, hostVars, TypeInv, ClientTypes, ReaderTypes
<1>2. held[s] = << >> /\ Reading(s) /\ Len(<< >>) = 0
  BY <1>1 DEF HandInv, Reading
<1>3. /\ InRing(s) \in Nat /\ Taken(s) = InRing(s) /\ inbox[s] \in Seq(Seq(Bytes)) /\ written[s] \in Nat
      /\ Len(held[s]) = 0
  <2>1. InRing(s) \in Nat /\ inbox[s] \in Seq(Seq(Bytes)) /\ written[s] \in Nat
    BY CountsAreNumbers
  <2> QED BY <1>2, <2>1 DEF Taken
<1>4. ASSUME Messages(inbox[s], s, Taken(s), written[s])
      PROVE  Run(Head(inbox[s]), s, InRing(s)) /\ Messages(Tail(inbox[s]), s, InRing(s) + Len(Head(inbox[s])), written[s])
  BY <1>1, <1>3, <1>4, MessagesTail
<1>5. InRing(s)' = InRing(s) /\ InBuffers(s)' = InBuffers(s) /\ Sent(s)' = Sent(s)
  BY <1>1 DEF InRing, InBuffers, Sent
<1>6. Taken(s)' = InRing(s) + Len(Head(inbox[s]))
  BY <1>1, <1>5 DEF Taken
<1>7. Sending(s)' <=> Sending(s)
  BY <1>1 DEF Sending
<1>8. ASSUME Sending(s)
      PROVE  Run(held[s], s, InRing(s))' /\ Messages(inbox[s], s, Taken(s), written[s])'
  <2>1. Messages(inbox[s], s, Taken(s), written[s])
    BY <1>2, <1>8 DEF ToHost
  <2>2. Run(held[s], s, InRing(s))'
    BY <1>1, <1>4, <1>5, <2>1 DEF Run
  <2>3. Messages(inbox[s], s, Taken(s), written[s])'
    BY SMTT(30), <1>1, <1>4, <1>6, <2>1 DEF Messages, Run, Start
  <2> QED BY <2>2, <2>3
<1> QED BY <1>1, <1>5, <1>7, <1>8 DEF ToHost, Run

(* The reader moves bytes to the ring, as many as fit. *)
LEMMA PushToHost ==
    ASSUME TypeInv, NEW s \in Clients, ToHost(s), Push(s)
    PROVE  ToHost(s)'
<1> DEFINE k == Len(Fits(txRing, held[s]))
           now == Fits(txRing, held[s])
           later == SubSeq(held[s], k + 1, Len(held[s]))
<1>1. /\ UNCHANGED <<got, cur, nxt, inbox, written, reader>> /\ reader[s] = "push"
      /\ txRing' = txRing \o now /\ held'[s] = later
  BY DEF Push, clientVars, hostVars, TypeInv, ReaderTypes
<1>2. Sending(s)' <=> Sending(s)
  BY DEF Push, Woken, Sending
<1>3. Reading(s) /\ Reading(s)'
  BY <1>1 DEF Reading
<1>4. /\ txRing \in Seq(Bytes) /\ Len(txRing) <= RingSize /\ held[s] \in Seq(Bytes) /\ Len(txRing) \in Nat
      /\ Len(held[s]) \in Nat /\ InBuffers(s) \in Nat /\ InRing(s) \in Nat
  BY CountsAreNumbers
<1>5. k \in Nat /\ now \in Seq(Bytes) /\ Len(now) = k /\ Len(later) = Len(held[s]) - k
  <2>1. k \in 0 .. Len(held[s]) /\ now \in Seq(Bytes)
    BY <1>4, FitsElements
  <2>2. Len(now) = k
    OBVIOUS
  <2> HIDE DEF k
  <2>3. Len(later) = Len(held[s]) - k
    BY <1>4, <2>1, RestElements
  <2> QED BY <1>4, <2>1, <2>2, <2>3
<1>6. ASSUME Run(held[s], s, InRing(s))
      PROVE  Run(now, s, InRing(s)) /\ Run(later, s, InRing(s) + k)
  BY <1>4, <1>6, RunFits
<1> HIDE DEF k, now, later
<1>7. Len(txRing') = Len(txRing) + k
  BY ZenonT(30), <1>1, <1>4, <1>5, ConcatElements
<1>8. InBuffers(s)' = InBuffers(s) /\ Sent(s)' = Sent(s)
  BY <1>1 DEF InBuffers, Sent
<1>9. InRing(s)' = InRing(s) + k
  BY <1>4, <1>5, <1>7, <1>8 DEF InRing
<1>10. Taken(s)' = Taken(s)
  BY <1>1, <1>4, <1>5, <1>9 DEF Taken
<1>11. ASSUME Sending(s)
       PROVE  Run(txRing, s, InBuffers(s))'
  <2>1. Run(txRing, s, InBuffers(s)) /\ Run(now, s, InRing(s)) /\ InRing(s) = InBuffers(s) + Len(txRing)
    BY <1>3, <1>6, <1>11 DEF ToHost, InRing
  <2>2. Run(txRing \o now, s, InBuffers(s))
    BY <1>4, <1>5, <2>1, RunConcat
  <2> QED BY <1>1, <1>8, <2>2 DEF Run
<1>12. ASSUME Sending(s)
       PROVE  Run(held[s], s, InRing(s))' /\ Messages(inbox[s], s, Taken(s), written[s])'
  <2>1. Run(later, s, InRing(s) + k) /\ Messages(inbox[s], s, Taken(s), written[s])
    BY <1>3, <1>6, <1>12 DEF ToHost
  <2> QED BY <1>1, <1>9, <1>10, <2>1 DEF Run, Messages, Start
<1> QED BY <1>1, <1>2, <1>8, <1>11, <1>12 DEF ToHost, Run

(* The sender takes a chunk out of the ring, into cur or into nxt. *)
LEMMA TakeToHost ==
    ASSUME TypeInv, HandInv, NEW s \in Clients, ToHost(s), Fill(s) \/ (Loop(s) /\ active)
    PROVE  ToHost(s)'
<1> DEFINE buf == SubSeq(txRing, 1, Chunk)
<1>1. /\ UNCHANGED <<got, inbox, written, held, reader>> /\ TakeChunk
  BY DEF Fill, Loop, clientVars, readerVars, hostVars
<1>2. /\ Sending(s) /\ Sending(s)' /\ (Reading(s)' <=> Reading(s)) /\ nxt[s] = << >> /\ Len(<< >>) = 0
  BY DEF Fill, Loop, readerVars, Sending, Reading, HandInv, TypeInv, SenderTypes
<1>3. /\ Sent(s) \in Nat /\ Len(cur[s]) \in Nat /\ InBuffers(s) \in Nat /\ Len(txRing) \in Nat
      /\ txRing \in Seq(Bytes) /\ Len(txRing) <= RingSize
  BY CountsAreNumbers
<1>4. /\ Chunk \in Nat /\ Len(buf) = Chunk /\ buf \in Seq(Bytes) /\ (txRing = << >> => buf = << >>)
      /\ Len(txRing') = Len(txRing) - Chunk
  <2>1. /\ Chunk \in 0 .. Len(txRing) /\ Len(buf) = Chunk /\ buf \in Seq(Bytes) /\ Len(txRing') = Len(txRing) - Chunk
    BY <1>1, <1>3, ChunkElements
  <2>2. txRing = << >> => Len(buf) = 0
    BY <1>2, <2>1
  <2> HIDE DEF buf
  <2> QED BY <1>3, <2>1, <2>2, EmptySeq
<1>5. Run(txRing, s, InBuffers(s)) /\ InBuffers(s) = Sent(s) + Len(cur[s])
  BY <1>2, <1>3 DEF ToHost, InBuffers
<1>6. Run(buf, s, InBuffers(s)) /\ Run(txRing', s, InBuffers(s) + Chunk)
  BY <1>1, <1>3, <1>5, RunChunk
<1> HIDE DEF buf
<1>7. /\ Sent(s)' = Sent(s)
      /\ \/ cur'[s] = cur[s] /\ nxt'[s] = buf
         \/ cur[s] = << >> /\ cur'[s] = buf /\ nxt'[s] = << >>
  <2>1. CASE Fill(s)
    <3>1. cur[s] = << >> /\ nxt'[s] = << >>
      BY <1>2, <2>1 DEF Fill, HandInv
    <3>2. cur'[s] = buf
      BY <1>4, <2>1, <3>1 DEF Fill, buf, TypeInv, SenderTypes
    <3> QED BY <1>1, <3>1, <3>2 DEF Sent
  <2>2. CASE Loop(s) /\ active
    BY <1>1, <2>2 DEF Loop, Sent, buf, TypeInv, SenderTypes
  <2> QED BY <2>1, <2>2
<1>8. Run(cur'[s], s, Sent(s)) /\ Run(nxt'[s], s, Sent(s) + Len(cur'[s]))
  <2>1. CASE cur'[s] = cur[s] /\ nxt'[s] = buf
    BY <1>5, <1>6, <2>1 DEF ToHost
  <2>2. CASE cur[s] = << >> /\ cur'[s] = buf /\ nxt'[s] = << >>
    <3>1. InBuffers(s) = Sent(s)
      BY <1>2, <1>3, <1>5, <2>2
    <3> QED BY <1>6, <2>2, <3>1 DEF Run
  <2> QED BY <1>7, <2>1, <2>2
<1>9. InBuffers(s)' = InBuffers(s) + Chunk
  BY <1>2, <1>3, <1>4, <1>5, <1>7 DEF InBuffers
<1>10. InRing(s)' = InRing(s)
  BY <1>3, <1>4, <1>9 DEF InRing
<1>11. Taken(s)' = Taken(s)
  BY <1>1, <1>10 DEF Taken
<1>12. Run(cur[s], s, Sent(s))' /\ Run(nxt[s], s, Sent(s) + Len(cur[s]))' /\ Run(txRing, s, InBuffers(s))'
  BY <1>6, <1>7, <1>8, <1>9 DEF Run
<1>13. ASSUME Reading(s)
       PROVE  Run(held[s], s, InRing(s))' /\ Messages(inbox[s], s, Taken(s), written[s])'
  BY <1>1, <1>2, <1>10, <1>11, <1>13 DEF ToHost, Run, Messages, Start
<1> QED BY <1>2, <1>12, <1>13 DEF ToHost

(* The bytes of cur go to the host, or are lost and nothing more is sent. *)
LEMMA SendsToHost ==
    ASSUME TypeInv, NEW s \in Clients, ToHost(s), Run(got[s], s, 0), Send(s) \/ Flush(s)
    PROVE  Run(got'[s], s, 0) /\ ToHost(s)'
<1>1. UNCHANGED <<inbox, written, held, reader, txRing>>
  BY DEF Send, Flush, clientVars, readerVars, channelVars
<1>2. /\ Sent(s) \in Nat /\ Len(cur[s]) \in Nat /\ Len(nxt[s]) \in Nat /\ Len(txRing) \in Nat
      /\ got[s] \in Seq(Bytes) /\ cur[s] \in Seq(Bytes) /\ Len(<< >>) = 0
  BY CountsAreNumbers
<1>3. got'[s] = got[s] \/ got'[s] = got[s] \o cur[s]
  BY DEF Send, Flush, SendData, TypeInv, HostTypes
<1>4. Run(got[s] \o cur[s], s, 0) /\ Len(got[s] \o cur[s]) = Sent(s) + Len(cur[s])
  <2>1. Run(cur[s], s, 0 + Len(got[s])) /\ 0 \in Nat
    BY <1>2 DEF ToHost, Sent
  <2>2. Run(got[s] \o cur[s], s, 0)
    BY <1>2, <2>1, RunConcat
  <2>3. Len(got[s] \o cur[s]) = Len(got[s]) + Len(cur[s])
    BY <1>2, ConcatElements
  <2> QED BY <2>2, <2>3 DEF Sent
<1>5. Run(got'[s], s, 0)
  BY <1>3, <1>4
<1>6. CASE Send(s) /\ (up \/ cur[s] = << >>)
  <2>1. /\ Sending(s) /\ cur'[s] = nxt[s] /\ nxt'[s] = << >>
    BY <1>6 DEF Send, Sending, TypeInv, SenderTypes
  <2>2. Len(got'[s]) = Sent(s) + Len(cur[s])
    <3>1. CASE up
      <4>1. got'[s] = got[s] \o cur[s]
        BY <1>6, <3>1 DEF Send, SendData, TypeInv, HostTypes
      <4> QED BY <1>4, <4>1
    <3>2. CASE ~up
      <4>1. got' = got /\ cur[s] = << >>
        BY <1>6, <3>2 DEF Send, SendData
      <4> QED BY <1>2, <4>1 DEF Sent
    <3> QED BY <3>1, <3>2
  <2>3. Sent(s)' = Sent(s) + Len(cur[s])
    BY <2>2 DEF Sent
  <2>4. InBuffers(s)' = InBuffers(s)
    BY <1>2, <2>1, <2>3 DEF InBuffers
  <2>5. InRing(s)' = InRing(s) /\ Taken(s)' = Taken(s)
    BY <1>1, <2>4 DEF InRing, Taken
  <2>6. Run(cur[s], s, Sent(s))' /\ Run(nxt[s], s, Sent(s) + Len(cur[s]))'
    BY <2>1, <2>3 DEF ToHost, Run
  <2> QED BY <1>1, <1>5, <2>1, <2>4, <2>5, <2>6 DEF ToHost, Run, Messages, Start, Reading
<1>7. CASE Send(s) /\ ~(up \/ cur[s] = << >>)
  <2>1. got' = got /\ cur' = cur /\ sender'[s] = "flush"
    BY <1>7 DEF Send, SendData, TypeInv, SenderTypes
  <2> QED BY <1>5, <2>1 DEF ToHost, Run, Sending, Sent
<1>8. CASE Flush(s)
  <2>1. cur'[s] = << >> /\ sender'[s] = "end"
    BY <1>8 DEF Flush, TypeInv, SenderTypes
  <2> QED BY <1>5, <2>1 DEF ToHost, Run, Sending
<1> QED BY <1>6, <1>7, <1>8

(* Every step keeps the bytes to the host in order. *)
LEMMA ToHostKept ==
    ASSUME TypeInv, NewInv, SpawnInv, HandInv, QuietInv, ToHostInv, [Next]_vars
    PROVE  ToHostInv'
<1> SUFFICES ASSUME Uncrowded', NEW s \in Clients
             PROVE  Run(got[s], s, 0)' /\ ((s = sock)' => ToHost(s)')
  BY DEF ToHostInv
<1>1. Uncrowded /\ Run(got[s], s, 0) /\ (s = sock => ToHost(s))
  BY MishapsStay DEF ToHostInv, Uncrowded
<1> DEFINE Goal == Run(got[s], s, 0)' /\ ((s = sock)' => ToHost(s)')
<1>2. ASSUME NEW c \in Clients, Accept(c)
      PROVE  Goal
  <2>1. got' = got /\ sock' = c
    BY <1>2 DEF Accept, hostVars
  <2>2. s = c => ToHost(s)'
    BY <1>2, AcceptToHost
  <2> QED BY <1>1, <2>1, <2>2 DEF Run
<1>3. ASSUME NEW c \in Clients, Answer(c) \/ Announce(c) \/ Spawn(c) \/ ClientRecv(c) \/ ClientClose(c)
      PROVE  Goal
  <2>1. /\ UNCHANGED <<got, cur, nxt, txRing, inbox, written, held, sock>>
        /\ \/ reader' = reader /\ sender' = sender
           \/ sock = c /\ reader' = [reader EXCEPT ![c] = "push"] /\ sender' = [sender EXCEPT ![c] = "idle"]
    BY <1>3 DEF Answer, Announce, Spawn, ClientRecv, ClientClose, SendOpen, channelVars, clientVars, readerVars, senderVars,
       hostVars
  <2>2. s = sock => (Sending(s)' => Sending(s)) /\ (Reading(s)' => Reading(s))
    <3>1. CASE reader' = reader /\ sender' = sender
      BY <3>1 DEF Sending, Reading
    <3>2. CASE Spawn(c)
      BY <3>2 DEF Spawn, SpawnInv, Sending, Reading
    <3>3. CASE ~Spawn(c)
      BY <1>3, <3>1, <3>3 DEF Answer, Announce, ClientRecv, ClientClose, readerVars, senderVars
    <3> QED BY <3>2, <3>3
  <2> QED BY <1>1, <2>1, <2>2, SameToHost DEF Run
<1>4. ASSUME NEW c \in Clients, NEW n \in 1 .. MaxLen, ClientSend(c, n)
      PROVE  Goal
  <2>1. UNCHANGED <<got, cur, nxt, txRing, held, sock, sender, reader>>
    BY <1>4 DEF ClientSend, channelVars, readerVars, senderVars, hostVars
  <2>2. CASE s = c
    BY <1>1, <1>4, <2>1, <2>2, SendToHost DEF Run
  <2>3. CASE s # c
    <3>1. inbox'[s] = inbox[s] /\ written'[s] = written[s]
      BY <1>4, <2>3 DEF ClientSend, TypeInv, ClientTypes
    <3>2. Sent(s)' = Sent(s) /\ InBuffers(s)' = InBuffers(s) /\ InRing(s)' = InRing(s) /\ Taken(s)' = Taken(s)
      BY <2>1 DEF Sent, InBuffers, InRing, Taken
    <3>3. ToHost(s) => ToHost(s)'
      BY <2>1, <3>1, <3>2 DEF ToHost, Run, Messages, Start, Sending, Reading
    <3> QED BY <1>1, <2>1, <3>3 DEF Run
  <2> QED BY <2>2, <2>3
<1>5. ASSUME NEW c \in Clients, Reader(c)
      PROVE  Goal
  <2>1. c = sock /\ sock' = sock /\ got' = got
    BY <1>1, <1>5, ActorHasChannel
       DEF Reader, Read, ReadFails, Push, Pushed, Deactivate, SayClose, channelVars, hostVars
  <2>2. ASSUME s = sock
        PROVE  ToHost(s)'
    <3>1. CASE Read(s)
      BY <1>1, <2>2, <3>1, ReadToHost
    <3>2. CASE Push(s)
      BY <1>1, <2>2, <3>2, PushToHost
    <3>3. CASE ReadFails(s) \/ Deactivate(s) \/ SayClose(s)
      <4>1. /\ UNCHANGED <<got, cur, nxt, txRing, inbox, written, held, sender>>
            /\ ~Reading(s)'
        BY <3>3 DEF ReadFails, Deactivate, SayClose, channelVars, clientVars, senderVars, hostVars, Reading,
           TypeInv, ReaderTypes
      <4> QED BY <1>1, <2>2, <4>1, SameToHost DEF Sending
    <3>4. CASE Pushed(s)
      <4>1. /\ UNCHANGED <<got, cur, nxt, txRing, inbox, written, sender>>
            /\ held' = [held EXCEPT ![s] = << >>] /\ (held[s] = << >> \/ ~Reading(s)') /\ Reading(s)
        BY <3>4 DEF Pushed, channelVars, clientVars, senderVars, hostVars, Reading, TypeInv, ReaderTypes
      <4>2. CASE held[s] = << >>
        <5>1. held' = held
          BY <4>1, <4>2 DEF TypeInv, ReaderTypes
        <5> QED BY <1>1, <2>2, <4>1, <5>1, SameToHost DEF Sending
      <4>3. CASE ~Reading(s)'
        BY <1>1, <2>2, <4>1, <4>3 DEF ToHost, Sent, InBuffers, Run, Sending
      <4> QED BY <4>1, <4>2, <4>3
    <3> QED BY <1>5, <2>1, <2>2, <3>1, <3>2, <3>3, <3>4 DEF Reader
  <2> QED BY <1>1, <2>1, <2>2 DEF Run
<1>6. ASSUME NEW c \in Clients, Sender(c)
      PROVE  Goal
  <2>1. c = sock /\ sock' = sock
    BY <1>1, <1>6, ActorHasChannel DEF Sender, Sleep, Fill, Loop, Send, Flush, channelVars
  <2>2. CASE s # c
    <3>1. got'[s] = got[s]
      BY <1>6, <2>2 DEF Sender, Sleep, Fill, Loop, Send, Flush, SendData, hostVars, TypeInv, HostTypes
    <3> QED BY <1>1, <2>1, <2>2, <3>1 DEF Run
  <2>3. CASE s = c
    <3>1. CASE Sleep(s)
      <4>1. UNCHANGED <<got, cur, nxt, txRing, inbox, written, held, reader>>
        BY <3>1 DEF Sleep, channelVars, clientVars, readerVars, hostVars
      <4>2. Sending(s)
        BY <3>1 DEF Sleep, Sending
      <4> QED BY <1>1, <2>1, <2>3, <4>1, <4>2, SameToHost DEF Reading, Run
    <3>2. CASE Fill(s) \/ (Loop(s) /\ active)
      <4>1. got' = got
        BY <3>2 DEF Fill, Loop, hostVars
      <4> QED BY <1>1, <2>1, <2>3, <3>2, <4>1, TakeToHost DEF Run
    <3>3. CASE Loop(s) /\ ~active
      <4>1. UNCHANGED <<got, cur>> /\ sender'[s] = "flush"
        BY <3>3 DEF Loop, hostVars, TypeInv, SenderTypes
      <4> QED BY <1>1, <2>1, <2>3, <4>1 DEF ToHost, Run, Sending, Sent
    <3>4. CASE Send(s) \/ Flush(s)
      BY <1>1, <2>1, <2>3, <3>4, SendsToHost DEF Run
    <3> QED BY <1>6, <2>3, <3>1, <3>2, <3>3, <3>4 DEF Sender
  <2> QED BY <2>2, <2>3
<1>7. ASSUME (\E c \in Clients : Forwarder(c)) \/ Receiver \/ (\E f \in HostFrames : HostSend(f)) \/ Disable \/ Enable
      PROVE  Goal
  <2>1. UNCHANGED <<got, cur, nxt, txRing, inbox, written, held, sock, sender, reader>>
    BY <1>7 DEF Forwarder, Doze, TakeLength, TakePayload, TimesOut, Forward, Stops,
       Receiver, Parse, WriteLength, WritePayload, Dispatch, HostSend, Disable, Enable,
       channelVars, clientVars, readerVars, senderVars, hostVars
  <2> QED BY <1>1, <2>1, SameToHost DEF Run, Sending, Reading
<1>8. CASE UNCHANGED vars
  <2>1. UNCHANGED <<got, cur, nxt, txRing, inbox, written, held, sock, sender, reader>>
    BY <1>8 DEF vars, channelVars, clientVars, readerVars, senderVars, hostVars
  <2> QED BY <1>1, <2>1, SameToHost DEF Run, Sending, Reading
<1> QED BY <1>2, <1>3, <1>4, <1>5, <1>6, <1>7, <1>8 DEF Next

(* The host hears of a connection before it gets bytes of it. *)
LEMMA KnownKept ==
    ASSUME TypeInv, KnownInv, [Next]_vars
    PROVE  KnownInv'
<1>1. "replug" \notin mishaps' => up'
  <2>1. UNCHANGED up \/ Disable \/ Enable
    <3>1. ASSUME NEW c \in Clients, \/ Accept(c) \/ Answer(c) \/ Announce(c) \/ Spawn(c)
                                    \/ (\E n \in 1 .. MaxLen : ClientSend(c, n)) \/ ClientRecv(c) \/ ClientClose(c)
          PROVE  UNCHANGED up
      BY <3>1 DEF Accept, Answer, Announce, Spawn, ClientSend, ClientRecv, ClientClose, usbVars
    <3>2. ASSUME NEW c \in Clients, Reader(c)
          PROVE  UNCHANGED up
      BY <3>2 DEF Reader, Read, ReadFails, Push, Pushed, Deactivate, SayClose, usbVars
    <3>3. ASSUME NEW c \in Clients, Sender(c)
          PROVE  UNCHANGED up
      BY <3>3 DEF Sender, Sleep, Fill, Loop, Send, Flush, usbVars
    <3>4. ASSUME NEW c \in Clients, Forwarder(c)
          PROVE  UNCHANGED up
      BY <3>4 DEF Forwarder, Doze, TakeLength, TakePayload, TimesOut, Forward, Stops, usbVars
    <3>5. ASSUME Receiver \/ \E f \in HostFrames : HostSend(f)
          PROVE  UNCHANGED up
      BY <3>5 DEF Receiver, Parse, WriteLength, WritePayload, Dispatch, HostSend, usbVars
    <3>6. CASE UNCHANGED vars
      BY <3>6 DEF vars, usbVars
    <3> QED BY <3>1, <3>2, <3>3, <3>4, <3>5, <3>6 DEF Next
  <2> QED BY <2>1, MishapsStay DEF KnownInv, Disable, Enable
<1> SUFFICES ASSUME mishaps' = {}
             PROVE  /\ accepting' = "spawn" => sock' \in announced'
                    /\ \A d \in Clients : sender'[d] # "none" \/ got'[d] # << >> => d \in announced'
  BY <1>1 DEF KnownInv
<1>2. /\ up /\ (accepting = "spawn" => sock \in announced)
      /\ \A d \in Clients : sender[d] # "none" \/ got[d] # << >> => d \in announced
  BY MishapsStay DEF KnownInv
<1> DEFINE Goal ==
      /\ accepting' = "spawn" => sock' \in announced'
      /\ \A d \in Clients : sender'[d] # "none" \/ got'[d] # << >> => d \in announced'
<1>3. ASSUME NEW c \in Clients, Accept(c)
      PROVE  Goal
  <2>1. UNCHANGED <<announced, got>> /\ \A d \in Clients : sender'[d] # "none" => sender[d] # "none"
    BY <1>3 DEF Accept, hostVars, TypeInv, SenderTypes
  <2> QED BY <1>2, <1>3, <2>1 DEF Accept
<1>4. ASSUME NEW c \in Clients, Announce(c)
      PROVE  Goal
  <2>1. sender' = sender /\ got' = got /\ sock' = c /\ announced' = announced \cup {c}
    BY <1>2, <1>4 DEF Announce, SendOpen, senderVars, channelVars
  <2> QED BY <1>2, <2>1
<1>5. ASSUME NEW c \in Clients, Spawn(c)
      PROVE  Goal
  <2>1. accepting' = "idle" /\ sender' = [sender EXCEPT ![c] = "idle"] /\ UNCHANGED <<got, announced>> /\ c \in announced
    BY <1>2, <1>5 DEF Spawn, hostVars
  <2> QED BY <1>2, <2>1 DEF TypeInv, SenderTypes
<1>6. ASSUME NEW c \in Clients, Reader(c)
      PROVE  Goal
  <2>1. UNCHANGED <<accepting, sock, got, announced>> /\ (sender' = sender \/ sender' = Woken(sender))
    BY <1>6 DEF Reader, Read, ReadFails, Push, Pushed, Deactivate, SayClose, channelVars, senderVars, hostVars
  <2> QED BY <1>2, <2>1 DEF Woken
<1>7. ASSUME NEW c \in Clients, Sender(c)
      PROVE  Goal
  <2>1. UNCHANGED <<accepting, sock, announced>> /\ sender[c] # "none"
    BY <1>7 DEF Sender, Sleep, Fill, Loop, Send, Flush, SendData, channelVars, hostVars
  <2>2. \A d \in Clients : d # c => sender'[d] = sender[d] /\ got'[d] = got[d]
    BY <1>7 DEF Sender, Sleep, Fill, Loop, Send, Flush, SendData, hostVars, TypeInv, SenderTypes, HostTypes
  <2> QED BY <1>2, <2>1, <2>2
<1>8. ASSUME \/ \E c \in Clients : \/ Answer(c) \/ ClientRecv(c) \/ ClientClose(c) \/ Forwarder(c)
                                   \/ \E n \in 1 .. MaxLen : ClientSend(c, n)
             \/ Receiver \/ Disable \/ Enable \/ \E f \in HostFrames : HostSend(f)
             \/ UNCHANGED vars
      PROVE  Goal
  <2>1. UNCHANGED <<sender, got, announced, sock>> /\ (accepting' = accepting \/ accepting' = "announce")
    BY <1>8 DEF vars, Answer, ClientSend, ClientRecv, ClientClose, Forwarder, Doze, TakeLength, TakePayload, TimesOut,
       Forward, Stops, Receiver, Parse, WriteLength, WritePayload, Dispatch, HostSend, Disable, Enable,
       channelVars, senderVars, hostVars
  <2> QED BY <1>2, <2>1
<1> QED BY <1>3, <1>4, <1>5, <1>6, <1>7, <1>8 DEF Next

(* OutInv holds at first. *)
LEMMA InitOut ==
    ASSUME Init
    PROVE  OutInv
<1>1. TypeInv
  BY InitTypes
<1>2. NewInv /\ SpawnInv /\ HandInv
  BY DEF Init, NewInv, Fresh, SpawnInv, HandInv, Clients, NoClient
<1>3. QuietInv
  BY DEF Init, QuietInv, Quiet, Over
<1>4. ToHostInv
  <2>1. DOMAIN << >> = {} /\ \A c \in Clients : c # sock
    BY ConstantsAssumption DEF Init, Clients, NoClient
  <2> QED BY <2>1 DEF Init, ToHostInv, Run
<1>5. KnownInv
  BY DEF Init, KnownInv
<1> QED BY <1>1, <1>2, <1>3, <1>4, <1>5 DEF OutInv

(* Every step keeps OutInv. *)
LEMMA OutKept ==
    ASSUME OutInv, [Next]_vars
    PROVE  OutInv'
BY TypesKept, NewKept, SpawnKept, HandKept, QuietKept, ToHostKept, KnownKept DEF OutInv

(* The host gets a connection's bytes in order, none twice and none skipped, *)
(* when a write of the sender fails, the cable is pulled or the channel is   *)
(* closed at any moment, unless a thread of an earlier connection still      *)
(* acted when the channel was given away; and without a replug it was told   *)
(* of the connection first.                                                  *)
THEOREM BytesInOrder == Spec => []StreamInOrder
<1>1. OutInv => StreamInOrder
  <2> SUFFICES ASSUME OutInv
               PROVE  StreamInOrder
    OBVIOUS
  <2>1. ASSUME Uncrowded, NEW c \in Clients
        PROVE  got[c] = [i \in 1 .. Len(got[c]) |-> <<c, i>>]
    <3>1. got[c] \in Seq(Bytes)
      BY DEF OutInv, TypeInv, HostTypes
    <3>2. Run(got[c], c, 0)
      BY <2>1 DEF OutInv, ToHostInv
    <3>3. DOMAIN got[c] = 1 .. Len(got[c]) /\ got[c] = [i \in DOMAIN got[c] |-> got[c][i]] /\ Len(got[c]) \in Nat
      BY <3>1
    <3>4. \A i \in 1 .. Len(got[c]) : got[c][i] = <<c, i>>
      <4>1. \A i \in 1 .. Len(got[c]) : 0 + i = i
        BY <3>3
      <4> QED BY <3>2, <3>3, <4>1 DEF Run
    <3> QED BY <3>3, <3>4
  <2>2. mishaps = {} => \A c \in Clients : got[c] # << >> => c \in announced
    BY DEF OutInv, KnownInv
  <2> QED BY <2>1, <2>2 DEF StreamInOrder, Uncrowded
<1>2. Init => OutInv
  BY InitOut
<1>3. OutInv /\ [Next]_vars => OutInv'
  BY OutKept
<1> QED BY <1>1, <1>2, <1>3, PTL DEF Spec

-----------------------------------------------------------------------------
(* Stretches of the ring. *)

UnitNumbers == \A u \in RxUnits : u[1] \in Nat /\ u[2] \in Nat /\ u[3] \in Nat \ {0}

(* Units of the ring. *)
LEMMA UnitsAreNumbers == UnitNumbers
BY ConstantsAssumption DEF UnitNumbers, RxUnits

(* What is left when the first n units are gone. *)
LEMMA WholeSuffix ==
    ASSUME NEW r \in Seq(RxUnits), Whole(r), NEW q \in Seq(RxUnits), NEW n \in Nat,
           Len(q) = Len(r) - n, \A i \in DOMAIN q : q[i] = r[n + i]
    PROVE  /\ Whole(q)
           /\ Complete(r) => Complete(q)
           /\ q # << >> => q[Len(q)] = r[Len(r)]
           /\ \A k \in Nat : Below(r, k) => Below(q, k)
<1>1. /\ Len(r) \in Nat /\ Len(q) \in Nat /\ DOMAIN r = 1 .. Len(r) /\ DOMAIN q = 1 .. Len(q)
      /\ n + Len(q) = Len(r)
  OBVIOUS
<1>2. \A i \in DOMAIN q : n + i \in DOMAIN r
  BY <1>1
<1>3. ASSUME NEW j \in DOMAIN q
      PROVE  /\ Rest(q, j) \in Nat
             /\ \A d \in 1 .. Rest(q, j) : j + d \in DOMAIN q => q[j + d] = <<q[j][1], q[j][2] + d, q[j][3]>>
             /\ j # Len(q) => j + Rest(q, j) <= Len(q)
             /\ j + Rest(q, j) + 1 \in DOMAIN q =>
                    q[j + Rest(q, j) + 1][2] = 0 /\ q[j][1] < q[j + Rest(q, j) + 1][1]
             /\ \A i \in DOMAIN q : i < j => q[i][1] <= q[j][1]
  <2> DEFINE p == n + j
  <2>1. p \in DOMAIN r /\ q[j] = r[p] /\ p \in Nat /\ j \in Nat
    BY <1>1, <1>2, <1>3
  <2>2. Rest(q, j) = Rest(r, p) /\ Rest(r, p) \in Nat
    BY <2>1 DEF Rest, Whole
  <2>3. ASSUME NEW d \in 1 .. Rest(q, j), j + d \in DOMAIN q
        PROVE  q[j + d] = <<q[j][1], q[j][2] + d, q[j][3]>>
    <3>1. n + (j + d) = p + d /\ n + (j + d) \in DOMAIN r
      BY <1>1, <1>2, <2>1, <2>2, <2>3
    <3>2. q[j + d] = r[p + d]
      BY <2>3, <3>1
    <3>3. r[p + d] = <<r[p][1], r[p][2] + d, r[p][3]>>
      BY <2>1, <2>2, <3>1 DEF Whole
    <3> QED BY <2>1, <3>2, <3>3
  <2>4. ASSUME j # Len(q)
        PROVE  j + Rest(q, j) <= Len(q)
    <3>1. p # Len(r)
      BY <1>1, <2>1, <2>4
    <3>2. p + Rest(r, p) <= Len(r)
      BY <2>1, <3>1 DEF Whole
    <3> QED BY <1>1, <2>1, <2>2, <3>2
  <2>5. ASSUME j + Rest(q, j) + 1 \in DOMAIN q
        PROVE  q[j + Rest(q, j) + 1][2] = 0 /\ q[j][1] < q[j + Rest(q, j) + 1][1]
    <3>1. n + (j + Rest(q, j) + 1) = p + Rest(r, p) + 1
      BY <1>1, <2>1, <2>2
    <3>2. p + Rest(r, p) + 1 \in DOMAIN r /\ q[j + Rest(q, j) + 1] = r[p + Rest(r, p) + 1]
      BY <1>2, <2>5, <3>1
    <3>3. r[p + Rest(r, p) + 1][2] = 0 /\ r[p][1] < r[p + Rest(r, p) + 1][1]
      BY <2>1, <3>2 DEF Whole
    <3> QED BY <2>1, <3>2, <3>3
  <2>6. ASSUME NEW i \in DOMAIN q, i < j
        PROVE  q[i][1] <= q[j][1]
    <3>1. n + i \in DOMAIN r /\ n + i < p /\ q[i] = r[n + i]
      BY <1>1, <1>2, <2>1, <2>6
    <3>2. r[n + i][1] <= r[p][1]
      BY <2>1, <3>1 DEF Whole
    <3> QED BY <2>1, <3>1, <3>2
  <2> QED BY <2>2, <2>3, <2>4, <2>5, <2>6
<1>4. q # << >> => q[Len(q)] = r[Len(r)] /\ r # << >>
  <2>1. ASSUME q # << >>
        PROVE  Len(q) \in DOMAIN q /\ Len(r) \in DOMAIN r
    <3>1. Len(q) \in Nat \ {0}
      BY <2>1, EmptySeq
    <3> QED BY <1>1, <3>1
  <2>2. DOMAIN << >> = {}
    OBVIOUS
  <2> QED BY <1>1, <2>1, <2>2
<1>5. Complete(r) => Complete(q)
  BY <1>4 DEF Complete, Rest
<1>6. ASSUME NEW k \in Nat, Below(r, k)
      PROVE  Below(q, k)
  BY <1>2, <1>6 DEF Below
<1> QED BY <1>3, <1>4, <1>5, <1>6 DEF Whole

(* A frame's length is put behind complete frames. *)
LEMMA WholeLength ==
    ASSUME NEW r \in Seq(RxUnits), Whole(r), Complete(r), NEW k \in Nat, Below(r, k), NEW n \in Nat \ {0},
           NEW q \in Seq(RxUnits), Len(q) = Len(r) + 1,
           \A i \in DOMAIN r : q[i] = r[i], q[Len(r) + 1] = <<k, 0, n>>
    PROVE  Whole(q)
<1>1. /\ Len(r) \in Nat /\ DOMAIN r = 1 .. Len(r) /\ DOMAIN q = 1 .. Len(r) + 1
  OBVIOUS
<1>2. \A j \in DOMAIN r : r[j][1] \in Nat /\ r[j][2] \in Nat /\ r[j][3] \in Nat
  BY UnitsAreNumbers DEF UnitNumbers
<1>3. ASSUME NEW j \in DOMAIN r
      PROVE  j + Rest(r, j) <= Len(r)
  <2>1. CASE j # Len(r)
    BY <2>1 DEF Whole
  <2>2. CASE j = Len(r)
    <3>1. r # << >>
      BY <1>1, <2>2
    <3> QED BY <1>1, <2>2, <3>1 DEF Complete
  <2> QED BY <2>1, <2>2
<1>4. ASSUME NEW j \in DOMAIN q
      PROVE  /\ Rest(q, j) \in Nat
             /\ \A d \in 1 .. Rest(q, j) : j + d \in DOMAIN q => q[j + d] = <<q[j][1], q[j][2] + d, q[j][3]>>
             /\ j # Len(q) => j + Rest(q, j) <= Len(q)
             /\ j + Rest(q, j) + 1 \in DOMAIN q =>
                    q[j + Rest(q, j) + 1][2] = 0 /\ q[j][1] < q[j + Rest(q, j) + 1][1]
             /\ \A i \in DOMAIN q : i < j => q[i][1] <= q[j][1]
  <2>1. CASE j \in DOMAIN r
    <3>1. Rest(q, j) = Rest(r, j) /\ Rest(r, j) \in Nat /\ j + Rest(r, j) <= Len(r) /\ q[j] = r[j] /\ j \in Nat
      BY <1>1, <1>3, <2>1 DEF Rest, Whole
    <3>2. ASSUME NEW d \in 1 .. Rest(q, j)
          PROVE  q[j + d] = <<q[j][1], q[j][2] + d, q[j][3]>>
      <4>1. j + d \in DOMAIN r /\ d \in 1 .. Rest(r, j)
        BY <1>1, <3>1
      <4>2. r[j + d] = <<r[j][1], r[j][2] + d, r[j][3]>>
        BY <2>1, <4>1 DEF Whole
      <4> QED BY <3>1, <4>1, <4>2
    <3>3. ASSUME j + Rest(q, j) + 1 \in DOMAIN q
          PROVE  q[j + Rest(q, j) + 1][2] = 0 /\ q[j][1] < q[j + Rest(q, j) + 1][1]
      <4>1. CASE j + Rest(r, j) + 1 \in DOMAIN r
        <5>1. r[j + Rest(r, j) + 1][2] = 0 /\ r[j][1] < r[j + Rest(r, j) + 1][1]
          BY <2>1, <4>1 DEF Whole
        <5> QED BY <3>1, <4>1, <5>1
      <4>2. CASE j + Rest(r, j) + 1 \notin DOMAIN r
        <5>1. j + Rest(q, j) + 1 = Len(r) + 1
          BY <1>1, <3>1, <3>3, <4>2
        <5>2. q[j + Rest(q, j) + 1] = <<k, 0, n>>
          BY <5>1
        <5>3. q[j][1] < k
          BY <2>1, <3>1 DEF Below
        <5> QED BY <5>2, <5>3
      <4> QED BY <4>1, <4>2
    <3>4. ASSUME NEW i \in DOMAIN q, i < j
          PROVE  q[i][1] <= q[j][1]
      <4>1. i \in DOMAIN r
        BY <1>1, <2>1, <3>4
      <4> QED BY <2>1, <3>1, <3>4, <4>1 DEF Whole
    <3> QED BY <1>1, <3>1, <3>2, <3>3, <3>4
  <2>2. CASE j = Len(r) + 1
    <3>1. q[j] = <<k, 0, n>> /\ Rest(q, j) = n
      BY <2>2 DEF Rest
    <3>2. ASSUME NEW i \in DOMAIN q, i < j
          PROVE  q[i][1] <= q[j][1]
      <4>1. i \in DOMAIN r
        BY <1>1, <2>2, <3>2
      <4>2. r[i][1] < k /\ r[i][1] \in Nat
        BY <1>2, <4>1 DEF Below
      <4> QED BY <3>1, <4>1, <4>2
    <3>3. /\ \A d \in 1 .. Rest(q, j) : j + d \notin DOMAIN q
          /\ j = Len(q) /\ j + Rest(q, j) + 1 \notin DOMAIN q
      BY <1>1, <2>2, <3>1
    <3> QED BY <3>1, <3>2, <3>3
  <2> QED BY <1>1, <2>1, <2>2
<1> QED BY <1>4 DEF Whole

(* Its payload is put behind its length, or stands alone when that is gone. *)
LEMMA WholePayload ==
    ASSUME NEW r \in Seq(RxUnits), Whole(r), NEW k \in Nat, NEW n \in Nat \ {0},
           r # << >> => r[Len(r)] = <<k, 0, n>>,
           NEW q \in Seq(RxUnits), Len(q) = Len(r) + n,
           \A i \in DOMAIN r : q[i] = r[i], \A d \in 1 .. n : q[Len(r) + d] = <<k, d, n>>
    PROVE  Whole(q) /\ Complete(q)
<1>1. /\ Len(r) \in Nat /\ DOMAIN r = 1 .. Len(r) /\ DOMAIN q = 1 .. Len(r) + n
  OBVIOUS
<1>2. \A j \in DOMAIN r : r[j][1] \in Nat /\ r[j][2] \in Nat /\ r[j][3] \in Nat
  BY UnitsAreNumbers DEF UnitNumbers
<1>3. ASSUME NEW j \in DOMAIN r, j # Len(r)
      PROVE  j + Rest(r, j) < Len(r)
  <2>1. j + Rest(r, j) <= Len(r) /\ Rest(r, j) \in Nat
    BY <1>3 DEF Whole
  <2>2. Len(r) \in DOMAIN r /\ r # << >>
    BY <1>1, <1>3
  <2>3. ASSUME j + Rest(r, j) = Len(r)
        PROVE  FALSE
    <3>1. Rest(r, j) \in 1 .. Rest(r, j)
      BY <1>1, <1>3, <2>1, <2>3
    <3>2. r[j + Rest(r, j)] = <<r[j][1], r[j][2] + Rest(r, j), r[j][3]>>
      BY <2>2, <2>3, <3>1 DEF Whole
    <3>3. r[j][2] + Rest(r, j) = 0
      BY <2>2, <2>3, <3>2
    <3> QED BY <1>2, <1>3, <3>1, <3>3
  <2> QED BY <1>1, <2>1, <2>3
<1>4. \A i \in DOMAIN r : r[i][1] <= k
  <2>1. ASSUME NEW i \in DOMAIN r
        PROVE  r[i][1] <= k
    <3>1. Len(r) \in DOMAIN r /\ r # << >> /\ r[Len(r)][1] = k
      BY <1>1
    <3>2. CASE i = Len(r)
      BY <1>2, <3>1, <3>2
    <3>3. CASE i # Len(r)
      <4>1. i < Len(r)
        BY <1>1, <3>3
      <4> QED BY <3>1, <4>1 DEF Whole
    <3> QED BY <3>2, <3>3
  <2> QED BY <2>1
<1>5. ASSUME NEW j \in DOMAIN q
      PROVE  /\ Rest(q, j) \in Nat
             /\ \A d \in 1 .. Rest(q, j) : j + d \in DOMAIN q => q[j + d] = <<q[j][1], q[j][2] + d, q[j][3]>>
             /\ j + Rest(q, j) <= Len(q)
             /\ j + Rest(q, j) + 1 \in DOMAIN q =>
                    q[j + Rest(q, j) + 1][2] = 0 /\ q[j][1] < q[j + Rest(q, j) + 1][1]
             /\ \A i \in DOMAIN q : i < j => q[i][1] <= q[j][1]
  <2>1. CASE j \in DOMAIN r /\ j # Len(r)
    <3>1. Rest(q, j) = Rest(r, j) /\ Rest(r, j) \in Nat /\ j + Rest(r, j) < Len(r) /\ q[j] = r[j] /\ j \in Nat
      BY <1>1, <1>3, <2>1 DEF Rest, Whole
    <3>2. ASSUME NEW d \in 1 .. Rest(q, j)
          PROVE  q[j + d] = <<q[j][1], q[j][2] + d, q[j][3]>>
      <4>1. j + d \in DOMAIN r /\ d \in 1 .. Rest(r, j)
        BY <1>1, <3>1
      <4>2. r[j + d] = <<r[j][1], r[j][2] + d, r[j][3]>>
        BY <2>1, <4>1 DEF Whole
      <4> QED BY <3>1, <4>1, <4>2
    <3>3. q[j + Rest(q, j) + 1][2] = 0 /\ q[j][1] < q[j + Rest(q, j) + 1][1]
      <4>1. j + Rest(r, j) + 1 \in DOMAIN r
        BY <1>1, <3>1
      <4>2. r[j + Rest(r, j) + 1][2] = 0 /\ r[j][1] < r[j + Rest(r, j) + 1][1]
        BY <2>1, <4>1 DEF Whole
      <4> QED BY SMTT(30), <3>1, <4>1, <4>2
    <3>4. ASSUME NEW i \in DOMAIN q, i < j
          PROVE  q[i][1] <= q[j][1]
      <4>1. i \in DOMAIN r
        BY <1>1, <2>1, <3>4
      <4> QED BY <2>1, <3>1, <3>4, <4>1 DEF Whole
    <3>5. j + Rest(q, j) <= Len(q)
      BY <1>1, <3>1
    <3> QED BY <3>1, <3>2, <3>3, <3>4, <3>5
  <2>2. CASE ~(j \in DOMAIN r /\ j # Len(r))
    <3>1. PICK e \in 0 .. n : j = Len(r) + e /\ (e = 0 => j \in DOMAIN r)
      <4>1. j \in Nat /\ j >= 1 /\ j >= Len(r) /\ j <= Len(r) + n
        BY <1>1, <2>2
      <4>2. j - Len(r) \in 0 .. n /\ j = Len(r) + (j - Len(r)) /\ (j - Len(r) = 0 => j \in DOMAIN r)
        BY <1>1, <4>1
      <4> QED BY <4>2
    <3>2. q[j] = <<k, e, n>>
      <4>1. CASE e = 0
        <5>1. j = Len(r) /\ j \in DOMAIN r
          BY <1>1, <3>1, <4>1
        <5>2. r # << >>
          BY <1>1, <5>1
        <5> QED BY <4>1, <5>1, <5>2
      <4>2. CASE e # 0
        <5>1. e \in 1 .. n
          BY <4>2
        <5> QED BY <3>1, <5>1
      <4> QED BY <4>1, <4>2
    <3>3. Rest(q, j) = n - e
      BY <3>2 DEF Rest
    <3>4. ASSUME NEW d \in 1 .. Rest(q, j)
          PROVE  q[j + d] = <<q[j][1], q[j][2] + d, q[j][3]>>
      <4>1. j + d = Len(r) + (e + d) /\ e + d \in 1 .. n
        BY <1>1, <3>1, <3>3
      <4>2. q[Len(r) + (e + d)] = <<k, e + d, n>>
        BY <4>1
      <4>3. q[j + d] = <<k, e + d, n>>
        BY <4>1, <4>2
      <4>4. q[j][1] = k /\ q[j][2] = e /\ q[j][3] = n
        BY <3>2
      <4> QED BY <4>3, <4>4
    <3>5. j + Rest(q, j) = Len(q)
      BY <1>1, <3>1, <3>3
    <3>6. ASSUME NEW i \in DOMAIN q, i < j
          PROVE  q[i][1] <= q[j][1]
      <4>1. CASE i \in DOMAIN r
        BY <1>4, <3>2, <4>1
      <4>2. CASE i \notin DOMAIN r
        <5>1. i - Len(r) \in 1 .. n /\ i = Len(r) + (i - Len(r))
          BY <1>1, <4>2
        <5>2. q[i][1] = k
          BY <5>1
        <5> QED BY <3>2, <5>2
      <4> QED BY <4>1, <4>2
    <3>7. Rest(q, j) \in Nat /\ j + Rest(q, j) <= Len(q) /\ j + Rest(q, j) + 1 \notin DOMAIN q
      BY <1>1, <3>1, <3>3, <3>5
    <3> QED BY <3>4, <3>6, <3>7
  <2> QED BY <2>1, <2>2
<1>6. Complete(q)
  <2>1. q[Len(r) + n] = <<k, n, n>>
    OBVIOUS
  <2> QED BY <2>1 DEF Complete, Rest
<1> QED BY <1>5, <1>6 DEF Whole

(* The forwarder takes a payload from the front. *)
LEMMA WholeFront ==
    ASSUME NEW r \in Seq(RxUnits), Whole(r), NEW n \in Nat \ {0}, n <= Len(r), r[1][2] = 1, r[1][3] = n
    PROVE  /\ SubSeq(r, 1, n) = Units(r[1][1], n)
           /\ \A i \in 1 .. n : r[i][2] # 0
           /\ \A i \in DOMAIN r : i > n => r[1][1] < r[i][1]
           /\ n + 1 \in DOMAIN r => r[n + 1][2] = 0
<1> DEFINE k == r[1][1]
<1>1. Len(r) \in Nat /\ DOMAIN r = 1 .. Len(r) /\ 1 \in DOMAIN r /\ Rest(r, 1) = n - 1
  BY DEF Rest
<1>2. r[1] = <<k, 1, n>> /\ k \in Nat
  BY <1>1, UnitsAreNumbers DEF UnitNumbers, RxUnits
<1>3. ASSUME NEW i \in 1 .. n
      PROVE  r[i] = <<k, i, n>>
  <2>1. CASE i = 1
    BY <1>2, <2>1
  <2>2. CASE i # 1
    <3>1. i - 1 \in 1 .. Rest(r, 1) /\ 1 + (i - 1) = i /\ i \in DOMAIN r
      BY <1>1, <2>2
    <3>2. r[1 + (i - 1)] = <<r[1][1], r[1][2] + (i - 1), r[1][3]>>
      BY <1>1, <3>1 DEF Whole
    <3> QED BY <1>2, <3>1, <3>2
  <2> QED BY <2>1, <2>2
<1>4. /\ SubSeq(r, 1, n) \in Seq(RxUnits) /\ Len(SubSeq(r, 1, n)) = n /\ DOMAIN SubSeq(r, 1, n) = 1 .. n
      /\ \A i \in 1 .. n : SubSeq(r, 1, n)[i] = r[i]
  BY SubSeqElements
<1>5. SubSeq(r, 1, n) = Units(k, n)
  <2>1. SubSeq(r, 1, n) = [i \in 1 .. n |-> SubSeq(r, 1, n)[i]]
    BY <1>4
  <2> QED BY <1>3, <1>4, <2>1 DEF Units
<1>6. n + 1 \in DOMAIN r => r[n + 1][2] = 0 /\ k < r[n + 1][1]
  <2>1. 1 + Rest(r, 1) + 1 = n + 1
    BY <1>1
  <2> QED BY <1>1, <2>1 DEF Whole
<1>7. ASSUME NEW i \in DOMAIN r, i > n
      PROVE  k < r[i][1]
  <2>1. n + 1 \in DOMAIN r
    BY <1>1, <1>7
  <2>2. i = n + 1 \/ r[n + 1][1] <= r[i][1]
    <3>1. i = n + 1 \/ n + 1 < i
      BY <1>1, <1>7
    <3> QED BY <2>1, <3>1 DEF Whole
  <2>3. r[n + 1][1] \in Nat /\ r[i][1] \in Nat
    BY <2>1, UnitsAreNumbers DEF UnitNumbers
  <2> QED BY <1>2, <1>6, <2>1, <2>2, <2>3
<1> QED BY <1>3, <1>5, <1>6, <1>7

-----------------------------------------------------------------------------
(* From the host. *)

InOrder == PipeInv /\ RingInv /\ ForwardInv /\ GivenInv /\ WholeInv

(* A channel that is not spoiled now was not before. *)
LEMMA CleanStays ==
    ASSUME [Next]_vars, Clean'
    PROVE  Clean /\ Uncrowded
BY MishapsStay DEF Clean, Uncrowded

(* Numbers of frames. *)
LEMMA NumbersAreNumbers ==
    ASSUME TypeInv
    PROVE  /\ hostSent \in Nat /\ frame.id \in Nat /\ frame.len \in Nat
           /\ rxRing \in Seq(RxUnits) /\ Len(rxRing) <= RingSize
           /\ \A j \in DOMAIN rxRing : rxRing[j][1] \in Nat /\ rxRing[j][2] \in Nat /\ rxRing[j][3] \in Nat \ {0}
           /\ usbIn \in Seq(Frames)
           /\ \A j \in DOMAIN usbIn : usbIn[j].id \in Nat
<1>1. /\ hostSent \in 0 .. MaxFrames /\ frame \in Frames /\ MaxFrames \in Nat /\ MaxLen \in Nat
      /\ rxRing \in Seq(RxUnits) /\ usbIn \in Seq(Frames) /\ Len(rxRing) <= RingSize
  BY ConstantsAssumption DEF TypeInv, ChannelTypes, RxTypes, UsbTypes, FrameOK
<1>2. \A f \in Frames : f.id \in Nat /\ f.len \in Nat
  BY <1>1 DEF Frames
<1>3. \A j \in DOMAIN rxRing : rxRing[j] \in RxUnits
  BY <1>1
<1>4. \A j \in DOMAIN usbIn : usbIn[j] \in Frames
  BY <1>1
<1> QED BY <1>1, <1>2, <1>3, <1>4, UnitsAreNumbers DEF UnitNumbers

(* Number of a frame. *)
LEMMA FirstIsNumber ==
    ASSUME NEW m \in Seq(RxUnits), IsFrame(m)
    PROVE  m[1][1] \in Nat
<1>1. 1 \in DOMAIN m
  BY EmptySeq DEF IsFrame
<1>2. m[1] \in RxUnits
  BY <1>1
<1> QED BY <1>2, UnitsAreNumbers DEF UnitNumbers

(* Numbers of the frames a client was given. *)
LEMMA GivenAreNumbers ==
    ASSUME TypeInv, WholeInv, GivenInv, sock \in Clients
    PROVE  /\ \A i \in DOMAIN delivered[sock] : delivered[sock][i][1][1] \in Nat
           /\ forwarder[sock] = "forward" => rxbuf[sock][1][1] \in Nat
<1>1. delivered[sock] \in Seq(Seq(RxUnits)) /\ rxbuf[sock] \in Seq(RxUnits)
  BY DEF TypeInv, DeliveryTypes, ForwardTypes
<1>2. \A i \in DOMAIN delivered[sock] : delivered[sock][i] \in Seq(RxUnits) /\ IsFrame(delivered[sock][i])
  BY <1>1 DEF WholeInv
<1> QED BY <1>1, <1>2, FirstIsNumber DEF GivenInv

(* Steps that leave the pipe, the ring and what was delivered alone. *)
Calm == {"none", "idle", "asleep"}

(* Steps that touch neither the frames nor the ring. *)
LEMMA SameIn ==
    ASSUME InOrder, UNCHANGED <<rxRing, rx, frame, usbIn, hostSent, sock, plen, rxbuf, delivered>>,
           \A c \in Clients : \/ forwarder'[c] = forwarder[c]
                              \/ forwarder[c] \in Calm /\ forwarder'[c] \in Calm \cup {"end", "lost"}
    PROVE  InOrder'
<1>1. PipeInv' /\ WholeInv'
  BY DEF InOrder, PipeInv, WholeInv
<1>2. sock \in Clients =>
          /\ forwarder[sock] = "payload" <=> forwarder'[sock] = "payload"
          /\ forwarder[sock] = "forward" <=> forwarder'[sock] = "forward"
          /\ forwarder'[sock] \in {"none", "idle", "asleep", "forward"} =>
                 forwarder[sock] \in {"none", "idle", "asleep", "forward"}
  BY DEF Calm
<1>3. RingInv'
  BY <1>2 DEF InOrder, RingInv
<1>4. ForwardInv'
  BY <1>2 DEF InOrder, ForwardInv
<1>5. \A k : Later(k) => Later(k)'
  BY DEF Later
<1>6. GivenInv'
  BY <1>2, <1>5 DEF InOrder, GivenInv
<1> QED BY <1>1, <1>3, <1>4, <1>6 DEF InOrder

(* A new connection begins with an empty ring. *)
LEMMA AcceptInOrder ==
    ASSUME TypeInv, NewInv, InOrder, NEW c \in Clients, Accept(c), Clean'
    PROVE  InOrder'
<1>1. /\ rx = "idle" /\ rxRing' = << >> /\ sock' = c /\ Fresh(c)
      /\ UNCHANGED <<rx, frame, usbIn, hostSent, delivered>>
      /\ forwarder'[c] = "none"
  BY DEF Accept, Clean, rxVars, usbVars, NewInv, Fresh, TypeInv, ForwardTypes
<1>2. DOMAIN << >> = {} /\ delivered'[c] = << >>
  BY <1>1 DEF Fresh
<1>3. PipeInv' /\ WholeInv'
  BY <1>1 DEF InOrder, PipeInv, WholeInv
<1>4. Whole(<< >>) /\ Complete(<< >>) /\ \A k : Below(<< >>, k)
  BY <1>2 DEF Whole, Complete, Below
<1>5. RingInv'
  BY <1>1, <1>4 DEF RingInv
<1>6. ForwardInv'
  BY <1>1 DEF ForwardInv
<1>7. GivenInv'
  BY <1>1, <1>2 DEF GivenInv
<1> QED BY <1>3, <1>5, <1>6, <1>7 DEF InOrder

(* The forwarder takes n units out of the ring. *)
LEMMA TakeFromRing ==
    ASSUME TypeInv, InOrder, NEW n \in Nat, rxRing' \in Seq(RxUnits), Len(rxRing') = Len(rxRing) - n,
           \A i \in DOMAIN rxRing' : rxRing'[i] = rxRing[n + i],
           UNCHANGED <<rx, frame, usbIn, hostSent, sock, delivered>>
    PROVE  /\ PipeInv' /\ WholeInv'
           /\ Whole(rxRing') /\ Below(rxRing', hostSent + 1)
           /\ rx = "dispatch" => Below(rxRing', frame.id)
           /\ \A i \in DOMAIN usbIn : Below(rxRing', usbIn[i].id)
           /\ Complete(rxRing) => Complete(rxRing')
           /\ rxRing' # << >> => rxRing'[Len(rxRing')] = rxRing[Len(rxRing)] /\ rxRing # << >>
           /\ \A k : Later(k) => Later(k)'
<1>1. /\ hostSent + 1 \in Nat /\ frame.id \in Nat /\ (\A j \in DOMAIN usbIn : usbIn[j].id \in Nat)
      /\ rxRing \in Seq(RxUnits)
  BY NumbersAreNumbers
<1>2. /\ Whole(rxRing) /\ Below(rxRing, hostSent + 1)
      /\ rx = "dispatch" => Below(rxRing, frame.id)
      /\ \A i \in DOMAIN usbIn : Below(rxRing, usbIn[i].id)
  BY DEF InOrder, RingInv
<1>3. /\ Whole(rxRing')
      /\ Complete(rxRing) => Complete(rxRing')
      /\ rxRing' # << >> => rxRing'[Len(rxRing')] = rxRing[Len(rxRing)]
      /\ \A k \in Nat : Below(rxRing, k) => Below(rxRing', k)
  BY <1>1, <1>2, WholeSuffix
<1>4. \A i \in DOMAIN rxRing' : n + i \in DOMAIN rxRing
  <2>1. DOMAIN rxRing = 1 .. Len(rxRing) /\ DOMAIN rxRing' = 1 .. Len(rxRing') /\ Len(rxRing) \in Nat /\ Len(rxRing') \in Nat
    BY <1>1
  <2> QED BY <2>1
<1>5. rxRing' # << >> => rxRing # << >>
  <2>1. Len(<< >>) = 0 /\ Len(rxRing') \in Nat
    OBVIOUS
  <2>2. rxRing' # << >> => Len(rxRing') # 0
    BY EmptySeq
  <2> QED BY <2>1, <2>2
<1>6. \A k : Later(k) => Later(k)'
  BY <1>4 DEF Later
<1>7. PipeInv' /\ WholeInv'
  BY DEF InOrder, PipeInv, WholeInv
<1> QED BY <1>1, <1>2, <1>3, <1>5, <1>6, <1>7

(* The forwarder takes the length of the next frame. *)
LEMMA TakeLengthInOrder ==
    ASSUME TypeInv, InOrder, NEW c \in Clients, c = sock, TakeLength(c)
    PROVE  InOrder'
<1> DEFINE n == rxRing[1][3]
<1>1. /\ rxRing # << >> /\ forwarder[sock] = "idle" /\ UNCHANGED <<rx, frame, usbIn, hostSent, sock, delivered, rxbuf>>
  BY DEF TakeLength, rxVars, usbVars
<1>2. /\ rxRing \in Seq(RxUnits) /\ 1 \in DOMAIN rxRing /\ Head(rxRing) = rxRing[1] /\ rxRing[1][2] = 0
      /\ rxRing[1][1] \in Nat /\ n \in Nat \ {0} /\ Len(rxRing) \in Nat \ {0} /\ DOMAIN rxRing = 1 .. Len(rxRing)
  <2>1. rxRing \in Seq(RxUnits) /\ 1 \in DOMAIN rxRing /\ Head(rxRing) = rxRing[1] /\ Len(rxRing) \in Nat \ {0}
        /\ DOMAIN rxRing = 1 .. Len(rxRing)
    BY <1>1, NumbersAreNumbers, TailElements
  <2>2. rxRing[1][2] = 0
    BY <1>1 DEF InOrder, ForwardInv
  <2> QED BY <2>1, <2>2, NumbersAreNumbers
<1>3. plen' = [plen EXCEPT ![c] = n] /\ rxRing' = Tail(rxRing) /\ forwarder' = [forwarder EXCEPT ![c] = "payload"]
  BY <1>2 DEF TakeLength, IsLength
<1>4. plen'[sock] = n /\ forwarder'[sock] = "payload"
  BY <1>3 DEF TypeInv, ForwardTypes
<1>5. /\ rxRing' \in Seq(RxUnits) /\ Len(rxRing') = Len(rxRing) - 1
      /\ \A i \in DOMAIN rxRing' : rxRing'[i] = rxRing[1 + i]
  <2>1. /\ rxRing' \in Seq(RxUnits) /\ Len(rxRing') = Len(rxRing) - 1 /\ DOMAIN rxRing' = 1 .. Len(rxRing) - 1
        /\ \A i \in DOMAIN rxRing' : rxRing'[i] = rxRing[i + 1]
    BY <1>1, <1>2, <1>3, TailElements
  <2>2. \A i \in DOMAIN rxRing' : i + 1 = 1 + i
    BY <1>2, <2>1
  <2> QED BY <2>1, <2>2
<1>6. /\ PipeInv' /\ WholeInv'
      /\ Whole(rxRing') /\ Below(rxRing', hostSent + 1)
      /\ rx = "dispatch" => Below(rxRing', frame.id)
      /\ \A i \in DOMAIN usbIn : Below(rxRing', usbIn[i].id)
      /\ Complete(rxRing) => Complete(rxRing')
      /\ rxRing' # << >> => rxRing'[Len(rxRing')] = rxRing[Len(rxRing)]
      /\ \A k : Later(k) => Later(k)'
  BY <1>1, <1>5, TakeFromRing
<1>7. rxRing' = << >> => Len(rxRing) = 1
  <2>1. Len(<< >>) = 0
    OBVIOUS
  <2>2. rxRing' = << >> => Len(rxRing) - 1 = 0
    BY <1>5, <2>1
  <2>3. \A i \in Nat \ {0} : i - 1 = 0 => i = 1
    OBVIOUS
  <2> QED BY <1>2, <2>2, <2>3
<1>8. rxRing' = << >> => rx = "payload"
  <2>1. Rest(rxRing, 1) = n
    BY <1>2 DEF Rest
  <2>2. Len(rxRing) = 1 => ~Complete(rxRing)
    BY <1>1, <1>2, <2>1 DEF Complete
  <2> QED BY <1>7, <2>2 DEF InOrder, RingInv
<1>9. RingInv'
  <2>1. ASSUME rx = "payload"
        PROVE  IF rxRing' = << >> THEN plen'[sock] = frame.len
               ELSE rxRing'[Len(rxRing')] = <<frame.id, 0, frame.len>>
    <3>1. rxRing[Len(rxRing)] = <<frame.id, 0, frame.len>>
      BY <1>1, <2>1 DEF InOrder, RingInv
    <3>2. rxRing' = << >> => rxRing[1] = <<frame.id, 0, frame.len>>
      BY <1>7, <3>1
    <3>3. rxRing' = << >> => n = frame.len
      BY <3>2
    <3> QED BY <1>4, <1>6, <3>1, <3>3
  <2> QED BY <1>1, <1>4, <1>6, <2>1 DEF InOrder, RingInv
<1>10. ASSUME rxRing' # << >>
       PROVE  rxRing'[1][2] = 1 /\ rxRing'[1][3] = n
  <2>1. Len(rxRing') # 0 /\ Len(rxRing') \in Nat /\ DOMAIN rxRing' = 1 .. Len(rxRing')
    BY <1>5, <1>10, EmptySeq
  <2>2. 1 \in DOMAIN rxRing' /\ 1 + 1 \in DOMAIN rxRing
    BY <1>2, <1>5, <2>1
  <2>3. 1 \in 1 .. Rest(rxRing, 1)
    BY <1>2 DEF Rest
  <2>4. rxRing[1 + 1] = <<rxRing[1][1], rxRing[1][2] + 1, rxRing[1][3]>>
    BY <1>2, <2>2, <2>3 DEF InOrder, RingInv, Whole
  <2> QED BY <1>2, <1>5, <2>2, <2>4
<1>11. ForwardInv'
  BY <1>1, <1>4, <1>8, <1>10 DEF ForwardInv
<1>12. GivenInv'
  BY <1>1, <1>4, <1>6 DEF InOrder, GivenInv
<1> QED BY <1>6, <1>9, <1>11, <1>12 DEF InOrder

(* A payload that is waited for arrives whole. *)
LEMMA PayloadArrives ==
    ASSUME TypeInv, InOrder, sock \in Clients, forwarder[sock] = "payload"
    PROVE  /\ rxRing = << >> => rx = "payload" /\ plen[sock] = frame.len /\ plen[sock] # 0
           /\ rxRing # << >> =>
                  /\ 1 \in DOMAIN rxRing /\ rxRing[1][2] = 1 /\ rxRing[1][3] = plen[sock]
                  /\ plen[sock] \in Nat \ {0} /\ plen[sock] <= Len(rxRing)
<1>1. ASSUME rxRing = << >>
      PROVE  rx = "payload" /\ plen[sock] = frame.len /\ plen[sock] # 0
  <2>1. rx = "payload" /\ plen[sock] = frame.len
    BY <1>1 DEF InOrder, ForwardInv, RingInv
  <2> QED BY <2>1 DEF TypeInv, RxTypes, FrameOK
<1>2. ASSUME rxRing # << >>
      PROVE  /\ 1 \in DOMAIN rxRing /\ rxRing[1][2] = 1 /\ rxRing[1][3] = plen[sock]
             /\ plen[sock] \in Nat \ {0} /\ plen[sock] <= Len(rxRing)
  <2>1. /\ 1 \in DOMAIN rxRing /\ rxRing[1][2] = 1 /\ rxRing[1][3] = plen[sock] /\ Len(rxRing) \in Nat
        /\ rxRing[1][3] \in Nat \ {0} /\ DOMAIN rxRing = 1 .. Len(rxRing)
    BY <1>2, NumbersAreNumbers, TailElements DEF InOrder, ForwardInv
  <2>2. Rest(rxRing, 1) = plen[sock] - 1
    BY <2>1 DEF Rest
  <2>3. CASE Len(rxRing) # 1
    <3>1. 1 + Rest(rxRing, 1) <= Len(rxRing)
      BY <2>1, <2>3 DEF InOrder, RingInv, Whole
    <3> QED BY <2>1, <2>2, <3>1
  <2>4. CASE Len(rxRing) = 1
    <3>1. rx = "payload" => rxRing[1][2] = 0
      BY <1>2, <2>4 DEF InOrder, RingInv
    <3>2. Rest(rxRing, 1) = 0
      BY <1>2, <2>1, <2>4, <3>1 DEF InOrder, RingInv, Complete
    <3> QED BY <2>1, <2>2, <2>4, <3>2
  <2> QED BY <2>1, <2>3, <2>4
<1> QED BY <1>1, <1>2

(* The forwarder takes its payload. *)
LEMMA TakePayloadInOrder ==
    ASSUME TypeInv, InOrder, NEW c \in Clients, c = sock, TakePayload(c)
    PROVE  InOrder'
<1>n. PICK n : n = plen[sock]
  OBVIOUS
<1>k. PICK k : k = rxRing[1][1]
  OBVIOUS
<1>1. /\ forwarder[sock] = "payload" /\ UNCHANGED <<rx, frame, usbIn, hostSent, sock, delivered>>
      /\ Len(rxRing) >= n /\ rxRing' = SubSeq(rxRing, n + 1, Len(rxRing))
      /\ rxbuf'[sock] = SubSeq(rxRing, 1, n) /\ forwarder'[sock] = "forward"
  BY <1>n DEF TakePayload, rxVars, usbVars, TypeInv, ForwardTypes
<1>2. rxRing \in Seq(RxUnits) /\ Len(rxRing) \in Nat /\ DOMAIN rxRing = 1 .. Len(rxRing)
  BY NumbersAreNumbers
<1>3. /\ rxRing # << >> /\ 1 \in DOMAIN rxRing /\ rxRing[1][2] = 1 /\ rxRing[1][3] = n /\ n \in Nat \ {0}
      /\ n <= Len(rxRing)
  <2>1. n \in Nat
    BY <1>n, ConstantsAssumption DEF TypeInv, ForwardTypes
  <2>2. rxRing # << >>
    <3>1. ASSUME rxRing = << >>
          PROVE  FALSE
      <4>1. n # 0 /\ Len(rxRing) = 0
        BY <1>n, <1>1, <3>1, PayloadArrives
      <4> QED BY <1>1, <2>1, <4>1
    <3> QED BY <3>1
  <2> QED BY <1>n, <1>1, <2>2, PayloadArrives
<1>4. /\ SubSeq(rxRing, 1, n) = Units(k, n)
      /\ \A i \in 1 .. n : rxRing[i][2] # 0
      /\ \A i \in DOMAIN rxRing : i > n => k < rxRing[i][1]
      /\ n + 1 \in DOMAIN rxRing => rxRing[n + 1][2] = 0
  BY <1>k, <1>2, <1>3, WholeFront DEF InOrder, RingInv
<1>5. /\ rxRing' \in Seq(RxUnits) /\ Len(rxRing') = Len(rxRing) - n /\ DOMAIN rxRing' = 1 .. Len(rxRing) - n
      /\ \A i \in DOMAIN rxRing' : rxRing'[i] = rxRing[n + i] /\ n + i \in DOMAIN rxRing
  <2>1. n \in 0 .. Len(rxRing)
    BY <1>2, <1>3
  <2>2. /\ SubSeq(rxRing, n + 1, Len(rxRing)) \in Seq(RxUnits)
        /\ Len(SubSeq(rxRing, n + 1, Len(rxRing))) = Len(rxRing) - n
        /\ DOMAIN SubSeq(rxRing, n + 1, Len(rxRing)) = 1 .. Len(rxRing) - n
        /\ \A i \in 1 .. Len(rxRing) - n :
               n + i \in DOMAIN rxRing /\ SubSeq(rxRing, n + 1, Len(rxRing))[i] = rxRing[n + i]
    BY <1>2, <2>1, RestElements
  <2> QED BY <1>1, <2>2
<1>6. /\ PipeInv' /\ WholeInv'
      /\ Whole(rxRing') /\ Below(rxRing', hostSent + 1)
      /\ rx = "dispatch" => Below(rxRing', frame.id)
      /\ \A i \in DOMAIN usbIn : Below(rxRing', usbIn[i].id)
      /\ Complete(rxRing) => Complete(rxRing')
      /\ rxRing' # << >> => rxRing'[Len(rxRing')] = rxRing[Len(rxRing)]
      /\ \A j : Later(j) => Later(j)'
  BY <1>1, <1>3, <1>5, TakeFromRing
<1>7. rx = "payload" =>
          /\ rxRing[Len(rxRing)] = <<frame.id, 0, frame.len>>
          /\ Len(rxRing) > n /\ rxRing' # << >>
  <2> SUFFICES ASSUME rx = "payload"
               PROVE  /\ rxRing[Len(rxRing)] = <<frame.id, 0, frame.len>>
                      /\ Len(rxRing) > n /\ rxRing' # << >>
    OBVIOUS
  <2>1. rxRing[Len(rxRing)] = <<frame.id, 0, frame.len>>
    BY <1>3 DEF InOrder, RingInv
  <2>2. Len(rxRing) # n
    <3>1. Len(rxRing) = n => rxRing[Len(rxRing)][2] # 0
      BY SMTT(30), <1>3, <1>4
    <3> QED BY <2>1, <3>1
  <2>3. Len(rxRing) > n /\ Len(rxRing') # 0
    <3>1. n \in Nat /\ Len(rxRing) \in Nat /\ n <= Len(rxRing) /\ Len(rxRing) # n /\ Len(rxRing') = Len(rxRing) - n
      BY <1>2, <1>3, <1>5, <2>2
    <3> QED BY ONLY SMTT(30), <3>1
  <2>4. Len(<< >>) = 0
    OBVIOUS
  <2> QED BY <2>1, <2>3, <2>4
<1>8. RingInv'
  BY <1>1, <1>6, <1>7 DEF InOrder, RingInv
<1>9. ForwardInv'
  <2>1. rxRing' # << >> => rxRing'[1][2] = 0
    <3>1. ASSUME rxRing' # << >>
          PROVE  1 \in DOMAIN rxRing'
      BY <1>5, <3>1, EmptySeq
    <3> QED BY <1>4, <1>5, <3>1
  <2> QED BY <1>1, <2>1 DEF ForwardInv
<1>10. k \in Nat /\ rxbuf'[sock] = Units(k, n) /\ rxbuf'[sock][1] = <<k, 1, n>> /\ IsFrame(rxbuf'[sock])
  <2>1. k \in Nat
    BY <1>k, <1>3, NumbersAreNumbers
  <2>2. 1 \in 1 .. n /\ DOMAIN Units(k, n) = 1 .. n /\ DOMAIN << >> = {}
    BY <1>3 DEF Units
  <2>3. Units(k, n)[1] = <<k, 1, n>> /\ Units(k, n) # << >>
    BY <2>2 DEF Units
  <2>4. rxbuf'[sock] = Units(k, n)
    BY <1>1, <1>4
  <2>5. rxbuf'[sock][1] = <<k, 1, n>> /\ rxbuf'[sock] # << >>
    BY <2>3, <2>4
  <2>6. rxbuf'[sock][1][1] = k /\ rxbuf'[sock][1][3] = n
    BY <2>5
  <2> QED BY <2>1, <2>4, <2>5, <2>6 DEF IsFrame
<1>11. Later(k)'
  <2>1. \A j \in DOMAIN rxRing' : k < rxRing'[j][1]
    <3>1. \A j \in DOMAIN rxRing' : n + j \in DOMAIN rxRing /\ n + j > n
      BY <1>2, <1>3, <1>5
    <3> QED BY <1>4, <1>5, <3>1
  <2>2. rx # "idle" => k < frame.id
    <3>1. CASE rx = "dispatch"
      BY <1>k, <1>3, <3>1 DEF InOrder, RingInv, Below
    <3>2. CASE rx = "payload"
      <4>1. Len(rxRing) \in DOMAIN rxRing /\ Len(rxRing) > n /\ rxRing[Len(rxRing)][1] = frame.id
        BY <1>2, <1>3, <1>7, <3>2
      <4> QED BY <1>4, <4>1
    <3> QED BY <3>1, <3>2 DEF TypeInv, RxTypes
  <2>3. \A j \in DOMAIN usbIn : k < usbIn[j].id
    BY <1>k, <1>3 DEF InOrder, RingInv, Below
  <2>4. k <= hostSent
    <3>1. k < hostSent + 1 /\ hostSent \in Nat
      BY <1>k, <1>3, NumbersAreNumbers DEF InOrder, RingInv, Below
    <3> QED BY <1>10, <3>1
  <2> QED BY <1>1, <2>1, <2>2, <2>3, <2>4 DEF Later
<1>12. \A i \in DOMAIN delivered[sock] : delivered[sock][i][1][1] < k
  BY <1>k, <1>3 DEF InOrder, GivenInv, Later
<1>13. rxbuf'[sock][1][1] = k
  BY <1>10
<1>14. ASSUME sock \in Clients
       PROVE  \A i \in DOMAIN delivered[sock] : Later(delivered[sock][i][1][1])'
  <2>1. \A i \in DOMAIN delivered[sock] : Later(delivered[sock][i][1][1])
    BY <1>14 DEF InOrder, GivenInv
  <2>2. ASSUME NEW i \in DOMAIN delivered[sock]
        PROVE  Later(delivered[sock][i][1][1])'
    <3>1. \A j : j = delivered[sock][i][1][1] => Later(j)'
      BY <1>6, <2>1, <2>2
    <3> QED BY <1>1, <3>1 DEF Later
  <2> QED BY <1>1, <2>2
<1>15. /\ IsFrame(rxbuf[sock])'
       /\ Later(rxbuf[sock][1][1])'
       /\ \A i \in DOMAIN delivered'[sock] : delivered'[sock][i][1][1] < rxbuf'[sock][1][1]
  BY <1>1, <1>10, <1>11, <1>12, <1>13 DEF Later, IsFrame
<1>16. GivenInv'
  BY <1>1, <1>14, <1>15 DEF GivenInv
<1> QED BY <1>6, <1>8, <1>9, <1>16 DEF InOrder

(* What was given and what the forwarder holds stay before what is to come. *)
LEMMA LaterGiven ==
    ASSUME InOrder, UNCHANGED <<sock, rxbuf, delivered>>,
           sock \in Clients => (forwarder'[sock] = "forward" => forwarder[sock] = "forward"),
           sock \in Clients =>
               /\ \A i \in DOMAIN delivered[sock] : \A k : k = delivered[sock][i][1][1] /\ Later(k) => Later(k)'
               /\ forwarder[sock] = "forward" => (\A k : k = rxbuf[sock][1][1] /\ Later(k) => Later(k)')
    PROVE  GivenInv'
<1> SUFFICES ASSUME sock \in Clients
             PROVE  /\ \A i \in DOMAIN delivered[sock] : Later(delivered[sock][i][1][1])'
                    /\ forwarder'[sock] = "forward" =>
                           /\ IsFrame(rxbuf[sock])
                           /\ Later(rxbuf[sock][1][1])'
                           /\ \A i \in DOMAIN delivered[sock] : delivered[sock][i][1][1] < rxbuf[sock][1][1]
  BY DEF GivenInv, IsFrame
<1>1. ASSUME NEW i \in DOMAIN delivered[sock]
      PROVE  Later(delivered[sock][i][1][1])'
  <2>1. Later(delivered[sock][i][1][1])
    BY DEF InOrder, GivenInv
  <2>2. \A k : k = delivered[sock][i][1][1] => Later(k)'
    BY <2>1
  <2> QED BY <2>2 DEF Later
<1>2. ASSUME forwarder'[sock] = "forward"
      PROVE  Later(rxbuf[sock][1][1])'
  <2>1. forwarder[sock] = "forward" /\ Later(rxbuf[sock][1][1])
    BY <1>2 DEF InOrder, GivenInv
  <2>2. \A k : k = rxbuf[sock][1][1] => Later(k)'
    BY <2>1
  <2> QED BY <2>2 DEF Later
<1>3. forwarder'[sock] = "forward" =>
          /\ IsFrame(rxbuf[sock])
          /\ \A i \in DOMAIN delivered[sock] : delivered[sock][i][1][1] < rxbuf[sock][1][1]
  BY DEF InOrder, GivenInv
<1> QED BY <1>1, <1>2, <1>3

(* The forwarder gives the frame to the client. *)
LEMMA ForwardInOrder ==
    ASSUME TypeInv, InOrder, NEW c \in Clients, c = sock, Forward(c)
    PROVE  InOrder'
<1>1. /\ UNCHANGED <<rxRing, rx, frame, usbIn, hostSent, sock, plen>> /\ forwarder[sock] = "forward"
      /\ forwarder'[sock] \in {"idle", "end"}
  BY DEF Forward, Looping, channelVars, rxVars, usbVars, TypeInv, ForwardTypes
<1>2. /\ delivered \in [Clients -> Seq(Seq(RxUnits))] /\ rxbuf[sock] \in Seq(RxUnits)
      /\ \/ delivered' = delivered
         \/ delivered' = [delivered EXCEPT ![sock] = Append(@, rxbuf[sock])]
  BY DEF Forward, TypeInv, DeliveryTypes, ForwardTypes
<1>3. PipeInv' /\ ForwardInv'
  BY <1>1 DEF InOrder, PipeInv, ForwardInv
<1>4. RingInv'
  BY <1>1 DEF InOrder, RingInv
<1>5. \A k : Later(k) => Later(k)'
  BY <1>1 DEF Later
<1>6. /\ IsFrame(rxbuf[sock]) /\ Later(rxbuf[sock][1][1])
      /\ \A i \in DOMAIN delivered[sock] : delivered[sock][i][1][1] < rxbuf[sock][1][1]
      /\ \A i \in DOMAIN delivered[sock] : Later(delivered[sock][i][1][1])
      /\ \A i \in DOMAIN delivered[sock] :
             /\ IsFrame(delivered[sock][i])
             /\ \A j \in DOMAIN delivered[sock] : j < i => delivered[sock][j][1][1] < delivered[sock][i][1][1]
  BY <1>1 DEF InOrder, GivenInv, WholeInv
<1>7. CASE delivered' = delivered
  <2>1. WholeInv'
    BY <1>7 DEF InOrder, WholeInv
  <2>2. ASSUME NEW i \in DOMAIN delivered'[sock]
        PROVE  Later(delivered[sock][i][1][1])'
    <3>1. \A k : k = delivered[sock][i][1][1] => Later(k)'
      BY <1>5, <1>6, <1>7, <2>2
    <3> QED BY <1>1, <1>7, <3>1 DEF Later
  <2>3. GivenInv'
    BY <1>1, <2>2 DEF GivenInv
  <2> QED BY <1>3, <1>4, <2>1, <2>3 DEF InOrder
<1>8. CASE delivered' = [delivered EXCEPT ![sock] = Append(@, rxbuf[sock])]
  <2> DEFINE q == delivered[sock]
  <2>1. /\ q \in Seq(Seq(RxUnits)) /\ Len(q) \in Nat /\ DOMAIN q = 1 .. Len(q)
        /\ delivered'[sock] = Append(q, rxbuf[sock])
        /\ DOMAIN delivered'[sock] = 1 .. (Len(q) + 1)
        /\ \A i \in DOMAIN q : delivered'[sock][i] = q[i]
        /\ delivered'[sock][Len(q) + 1] = rxbuf[sock]
    BY <1>2, <1>8, AppendElements
  <2>2. \A i \in DOMAIN delivered'[sock] : i \in DOMAIN q \/ i = Len(q) + 1
    BY <2>1
  <2>3. ASSUME NEW i \in DOMAIN delivered'[sock]
        PROVE  /\ IsFrame(delivered'[sock][i])
               /\ \A j \in DOMAIN delivered'[sock] : j < i => delivered'[sock][j][1][1] < delivered'[sock][i][1][1]
    <3>1. \A j \in DOMAIN delivered'[sock] : j < i => j \in DOMAIN q
      BY <2>1
    <3>2. CASE i \in DOMAIN q
      BY <1>6, <2>1, <3>1, <3>2
    <3>3. CASE i = Len(q) + 1
      BY <1>6, <2>1, <3>1, <3>3
    <3> QED BY <2>2, <3>2, <3>3
  <2>4. \A d \in Clients : d # sock => delivered'[d] = delivered[d]
    BY <1>2, <1>8
  <2>5. WholeInv'
    <3>1. ASSUME NEW d \in Clients, NEW i \in DOMAIN delivered'[d]
          PROVE  /\ IsFrame(delivered'[d][i])
                 /\ \A j \in DOMAIN delivered'[d] : j < i => delivered'[d][j][1][1] < delivered'[d][i][1][1]
      <4>1. CASE d = sock
        BY <2>3, <3>1, <4>1
      <4>2. CASE d # sock
        BY <2>4, <3>1, <4>2 DEF InOrder, WholeInv
      <4> QED BY <4>1, <4>2
    <3> QED BY <3>1 DEF WholeInv, IsFrame
  <2>6. ASSUME NEW i \in DOMAIN delivered'[sock]
        PROVE  Later(delivered[sock][i][1][1])'
    <3>1. \A k : k = delivered'[sock][i][1][1] => Later(k)
      <4>1. CASE i \in DOMAIN q
        BY <1>6, <2>1, <4>1
      <4>2. CASE i = Len(q) + 1
        BY <1>6, <2>1, <4>2
      <4> QED BY <2>2, <4>1, <4>2
    <3>2. \A k : k = delivered'[sock][i][1][1] => Later(k)'
      BY <1>5, <3>1
    <3> QED BY <1>1, <3>2 DEF Later
  <2>7. GivenInv'
    BY <1>1, <2>6 DEF GivenInv
  <2> QED BY <1>3, <1>4, <2>5, <2>7 DEF InOrder
<1> QED BY <1>2, <1>7, <1>8

(* As long as the channel is not spoiled all that is written finds room. *)
LEMMA WrittenWhole ==
    ASSUME TypeInv, NEW s \in Seq(RxUnits), WriteRing(s), Clean'
    PROVE  rxRing' = rxRing \o s /\ rxRing' \in Seq(RxUnits)
<1>1. rxRing \in Seq(RxUnits) /\ Len(rxRing) <= RingSize
  BY NumbersAreNumbers
<1>2. Len(Fits(rxRing, s)) \in Nat /\ Len(s) \in Nat /\ (Len(Fits(rxRing, s)) >= Len(s) => Fits(rxRing, s) = s)
  BY <1>1, FitsElements
<1>3. ~(Len(Fits(rxRing, s)) < Len(s))
  BY DEF WriteRing, Overruns, Clean
<1>4. Fits(rxRing, s) = s
  BY <1>2, <1>3
<1> QED BY <1>1, <1>4, ConcatElements DEF WriteRing

(* A write wakes the forwarder if it sleeps. *)
LEMMA WokenForwarder ==
    ASSUME TypeInv, NEW s, WriteRing(s), sock \in Clients
    PROVE  /\ (forwarder[sock] = "payload") <=> (forwarder'[sock] = "payload")
           /\ (forwarder[sock] = "forward") <=> (forwarder'[sock] = "forward")
           /\ forwarder'[sock] \in {"none", "idle", "asleep", "forward"} =>
                  forwarder[sock] \in {"none", "idle", "asleep", "forward"}
BY DEF WriteRing, Woken

(* The receiving thread writes the length of a frame. *)
LEMMA WriteLengthInOrder ==
    ASSUME TypeInv, InOrder, WriteLength, Clean'
    PROVE  InOrder'
<1> DEFINE s == LengthOf(frame.id, frame.len)
<1>1. /\ rx = "dispatch" /\ rx' = "payload" /\ UNCHANGED <<sock, frame, usbIn, hostSent, plen, rxbuf, delivered>>
      /\ frame.flag = "data" /\ WriteRing(s)
  BY DEF WriteLength, usbVars
<1>2. s \in Seq(RxUnits) /\ frame.len \in Nat \ {0} /\ frame.id \in Nat
  BY <1>1, LengthsAndPayloads, NumbersAreNumbers DEF TypeInv, RxTypes, FrameOK
<1>3. rxRing' = rxRing \o s /\ rxRing' \in Seq(RxUnits)
  BY <1>1, <1>2, WrittenWhole
<1>4. rxRing \in Seq(RxUnits) /\ Len(rxRing) \in Nat /\ DOMAIN rxRing = 1 .. Len(rxRing)
  BY NumbersAreNumbers
<1>5. Len(s) = 1 /\ DOMAIN s = 1 .. 1 /\ s[1] = <<frame.id, 0, frame.len>>
  BY DEF LengthOf
<1> HIDE DEF s
<1>6. /\ Len(rxRing') = Len(rxRing) + 1 /\ DOMAIN rxRing' = 1 .. Len(rxRing) + 1
      /\ \A i \in DOMAIN rxRing : rxRing'[i] = rxRing[i]
      /\ rxRing'[Len(rxRing) + 1] = <<frame.id, 0, frame.len>>
  <2>1. /\ Len(rxRing \o s) = Len(rxRing) + Len(s)
        /\ \A i \in DOMAIN rxRing : (rxRing \o s)[i] = rxRing[i]
        /\ \A i \in DOMAIN s : (rxRing \o s)[Len(rxRing) + i] = s[i]
    BY <1>2, <1>4, ConcatElements
  <2>2. 1 \in DOMAIN s
    BY <1>5
  <2>3. rxRing'[Len(rxRing) + 1] = s[1]
    BY <1>3, <2>1, <2>2
  <2>4. DOMAIN rxRing' = 1 .. Len(rxRing')
    BY <1>3
  <2> QED BY <1>3, <1>5, <2>1, <2>3, <2>4
<1>7. \A i \in DOMAIN rxRing' : i \in DOMAIN rxRing \/ i = Len(rxRing) + 1
  BY <1>4, <1>6
<1>8. PipeInv' /\ WholeInv'
  BY <1>1 DEF InOrder, PipeInv, WholeInv
<1>9. Whole(rxRing')
  <2>1. Whole(rxRing) /\ Complete(rxRing) /\ Below(rxRing, frame.id)
    BY <1>1 DEF InOrder, RingInv
  <2> QED BY <1>2, <1>3, <1>4, <1>6, <2>1, WholeLength
<1>10. rxRing' # << >>
  <2>1. Len(<< >>) = 0
    OBVIOUS
  <2> QED BY <1>4, <1>6, <2>1
<1>11. frame.id < hostSent + 1 /\ \A i \in DOMAIN usbIn : frame.id < usbIn[i].id
  <2>1. frame.id \in 1 .. hostSent /\ hostSent \in Nat
    BY <1>1, NumbersAreNumbers DEF InOrder, PipeInv
  <2> QED BY <1>1, <2>1 DEF InOrder, PipeInv
<1>12. Below(rxRing', hostSent + 1) /\ \A i \in DOMAIN usbIn : Below(rxRing', usbIn[i].id)
  <2>1. Below(rxRing, hostSent + 1) /\ \A i \in DOMAIN usbIn : Below(rxRing, usbIn[i].id)
    BY DEF InOrder, RingInv
  <2> QED BY <1>6, <1>7, <1>11, <2>1 DEF Below
<1>13. RingInv'
  BY <1>1, <1>6, <1>9, <1>10, <1>12 DEF RingInv
<1>14. rxRing = << >> => rxRing'[1] = <<frame.id, 0, frame.len>>
  <2>1. Len(<< >>) + 1 = 1
    OBVIOUS
  <2> QED BY <1>6, <2>1
<1>15. rxRing # << >> => rxRing'[1] = rxRing[1]
  BY <1>4, <1>6, EmptySeq
<1>16. ForwardInv'
  <2> SUFFICES ASSUME sock \in Clients
               PROVE  /\ forwarder'[sock] \in {"none", "idle", "asleep", "forward"} => rxRing'[1][2] = 0
                      /\ forwarder'[sock] = "payload" => rxRing'[1][2] = 1 /\ rxRing'[1][3] = plen[sock]
    BY <1>1, <1>10 DEF ForwardInv
  <2>1. forwarder'[sock] \in {"none", "idle", "asleep", "forward"} => rxRing'[1][2] = 0
    BY <1>1, <1>14, <1>15, WokenForwarder DEF InOrder, ForwardInv
  <2>2. forwarder'[sock] = "payload" => rxRing'[1][2] = 1 /\ rxRing'[1][3] = plen[sock]
    BY <1>1, <1>15, WokenForwarder DEF InOrder, ForwardInv
  <2> QED BY <2>1, <2>2
<1>17. \A k : Later(k) => Later(k)'
  <2> SUFFICES ASSUME NEW k, Later(k)
               PROVE  Later(k)'
    OBVIOUS
  <2>1. k < frame.id
    BY <1>1 DEF Later
  <2>2. \A j \in DOMAIN rxRing' : k < rxRing'[j][1]
    BY <1>6, <1>7, <2>1 DEF Later
  <2> QED BY <1>1, <2>1, <2>2 DEF Later
<1>18. GivenInv'
  BY <1>1, <1>17, WokenForwarder, LaterGiven
<1> QED BY <1>8, <1>13, <1>16, <1>18 DEF InOrder

(* The receiving thread writes its payload. *)
LEMMA WritePayloadInOrder ==
    ASSUME TypeInv, InOrder, WritePayload, Clean'
    PROVE  InOrder'
<1> DEFINE s == Units(frame.id, frame.len)
<1>1. /\ rx = "payload" /\ rx' = "idle" /\ UNCHANGED <<sock, usbIn, hostSent, plen, rxbuf, delivered>>
      /\ frame.flag = "data" /\ WriteRing(s)
  BY DEF WritePayload, Handled, usbVars, TypeInv, RxTypes
<1>n. PICK n : n = frame.len
  OBVIOUS
<1>k. PICK k : k = frame.id
  OBVIOUS
<1>2. s \in Seq(RxUnits) /\ n \in Nat \ {0} /\ k \in Nat
  BY <1>1, <1>n, <1>k, LengthsAndPayloads, NumbersAreNumbers DEF TypeInv, RxTypes, FrameOK
<1>3. rxRing' = rxRing \o s /\ rxRing' \in Seq(RxUnits)
  BY <1>1, <1>2, WrittenWhole
<1>4. rxRing \in Seq(RxUnits) /\ Len(rxRing) \in Nat /\ DOMAIN rxRing = 1 .. Len(rxRing)
  BY NumbersAreNumbers
<1>5. Len(s) = n /\ DOMAIN s = 1 .. n /\ \A d \in 1 .. n : s[d] = <<k, d, n>>
  BY <1>n, <1>k, <1>2 DEF Units
<1> HIDE DEF s
<1>6. /\ Len(rxRing') = Len(rxRing) + n /\ DOMAIN rxRing' = 1 .. Len(rxRing) + n
      /\ \A i \in DOMAIN rxRing : rxRing'[i] = rxRing[i]
      /\ \A d \in 1 .. n : rxRing'[Len(rxRing) + d] = <<k, d, n>>
  BY <1>2, <1>3, <1>4, <1>5, ConcatElements
<1>7. \A i \in DOMAIN rxRing' : i \in DOMAIN rxRing \/ rxRing'[i][1] = k
  <2>1. ASSUME NEW i \in DOMAIN rxRing', i \notin DOMAIN rxRing
        PROVE  rxRing'[i][1] = k
    <3>1. i - Len(rxRing) \in 1 .. n /\ Len(rxRing) + (i - Len(rxRing)) = i
      BY <1>2, <1>4, <1>6, <2>1
    <3>2. rxRing'[Len(rxRing) + (i - Len(rxRing))] = <<k, i - Len(rxRing), n>>
      BY <1>6, <3>1
    <3> QED BY <3>1, <3>2
  <2> QED BY <2>1
<1>8. PipeInv' /\ WholeInv'
  BY <1>1 DEF InOrder, PipeInv, WholeInv
<1>9. Whole(rxRing') /\ Complete(rxRing')
  <2>1. Whole(rxRing) /\ (rxRing # << >> => rxRing[Len(rxRing)] = <<k, 0, n>>)
    BY <1>1, <1>n, <1>k DEF InOrder, RingInv
  <2> QED BY ZenonT(30), <1>2, <1>3, <1>4, <1>6, <2>1, WholePayload
<1>10. rxRing' # << >> /\ 1 \in DOMAIN rxRing'
  <2>1. Len(<< >>) = 0 /\ Len(rxRing') # 0
    BY <1>2, <1>4, <1>6
  <2> QED BY <1>2, <1>4, <1>6, <2>1
<1>11. k < hostSent + 1 /\ \A i \in DOMAIN usbIn : k < usbIn[i].id
  <2>1. k \in 1 .. hostSent /\ hostSent \in Nat
    BY <1>1, <1>k, NumbersAreNumbers DEF InOrder, PipeInv
  <2> QED BY <1>1, <1>k, <2>1 DEF InOrder, PipeInv
<1>12. Below(rxRing', hostSent + 1) /\ \A i \in DOMAIN usbIn : Below(rxRing', usbIn[i].id)
  <2>1. Below(rxRing, hostSent + 1) /\ \A i \in DOMAIN usbIn : Below(rxRing, usbIn[i].id)
    BY DEF InOrder, RingInv
  <2> QED BY <1>6, <1>7, <1>11, <2>1 DEF Below
<1>13. RingInv'
  BY <1>1, <1>9, <1>12 DEF RingInv
<1>14. rxRing = << >> =>
           rxRing'[1] = <<k, 1, n>> /\ sock \in Clients /\ forwarder[sock] = "payload" /\ plen[sock] = n
  <2>1. Len(<< >>) + 1 = 1 /\ 1 \in 1 .. n
    BY <1>2
  <2> QED BY <1>1, <1>n, <1>6, <2>1 DEF InOrder, RingInv
<1>15. rxRing # << >> => rxRing'[1] = rxRing[1]
  BY <1>4, <1>6, EmptySeq
<1>16. ForwardInv'
  <2> SUFFICES ASSUME sock \in Clients
               PROVE  /\ forwarder'[sock] \in {"none", "idle", "asleep", "forward"} => rxRing'[1][2] = 0
                      /\ forwarder'[sock] = "payload" => rxRing'[1][2] = 1 /\ rxRing'[1][3] = plen[sock]
    BY <1>1, <1>10 DEF ForwardInv
  <2>1. forwarder'[sock] \in {"none", "idle", "asleep", "forward"} => rxRing'[1][2] = 0
    BY <1>1, <1>14, <1>15, WokenForwarder DEF InOrder, ForwardInv
  <2>2. forwarder'[sock] = "payload" => rxRing'[1][2] = 1 /\ rxRing'[1][3] = plen[sock]
    BY <1>1, <1>14, <1>15, WokenForwarder DEF InOrder, ForwardInv
  <2> QED BY <2>1, <2>2
<1>17. \A j : Later(j) => Later(j)'
  <2> SUFFICES ASSUME NEW j, Later(j)
               PROVE  Later(j)'
    OBVIOUS
  <2>1. j < k
    BY <1>1, <1>k DEF Later
  <2>2. \A i \in DOMAIN rxRing' : j < rxRing'[i][1]
    BY <1>6, <1>7, <2>1 DEF Later
  <2> QED BY <1>1, <2>2 DEF Later
<1>18. GivenInv'
  BY <1>1, <1>17, WokenForwarder, LaterGiven
<1> QED BY <1>8, <1>13, <1>16, <1>18 DEF InOrder

(* The other steps of the receiving thread and those of the host. *)
LEMMA PipeInOrder ==
    ASSUME TypeInv, InOrder, Parse \/ Dispatch \/ (\E f \in HostFrames : HostSend(f)) \/ Disable, Clean'
    PROVE  InOrder'
<1>1. UNCHANGED <<rxRing, sock, forwarder, plen, rxbuf, delivered>>
  BY DEF Parse, Dispatch, HostSend, Disable, channelVars, forwardVars
<1>2. /\ hostSent \in Nat /\ usbIn \in Seq(Frames) /\ (\A j \in DOMAIN usbIn : usbIn[j].id \in Nat)
      /\ \A j \in DOMAIN rxRing : rxRing[j][1] \in Nat
  BY NumbersAreNumbers
<1>3. WholeInv'
  BY <1>1 DEF InOrder, WholeInv
<1> DEFINE Steady ==
      /\ PipeInv'
      /\ (rx = "payload") <=> (rx' = "payload")
      /\ (rx = "payload" => frame' = frame)
      /\ Below(rxRing, hostSent' + 1)
      /\ rx' = "dispatch" => Below(rxRing, frame'.id)
      /\ \A i \in DOMAIN usbIn' : Below(rxRing, usbIn'[i].id)
      /\ \A k \in Nat : Later(k) => Later(k)'
<1>4. ASSUME Parse
      PROVE  Steady
  <2>1. /\ rx = "idle" /\ usbIn # << >> /\ usbIn' = Tail(usbIn) /\ hostSent' = hostSent
        /\ \/ rx' = "idle" /\ frame' = frame
           \/ rx' = "dispatch" /\ frame' = Head(usbIn)
    BY <1>4 DEF Parse, Clean
  <2>0. (rx = "payload") <=> (rx' = "payload")
    BY <2>1
  <2>2. /\ Head(usbIn) = usbIn[1] /\ 1 \in DOMAIN usbIn
        /\ \A i \in DOMAIN usbIn' : usbIn'[i] = usbIn[i + 1] /\ i + 1 \in DOMAIN usbIn /\ 1 < i + 1 /\ i \in Nat
    BY <1>2, <2>1, TailElements
  <2>3. PipeInv'
    BY <2>1, <2>2 DEF InOrder, PipeInv
  <2>4. /\ Below(rxRing, hostSent' + 1)
        /\ rx' = "dispatch" => Below(rxRing, frame'.id)
        /\ \A i \in DOMAIN usbIn' : Below(rxRing, usbIn'[i].id)
    BY <2>1, <2>2 DEF InOrder, RingInv
  <2>5. \A k \in Nat : Later(k) => Later(k)'
    BY <1>1, <2>1, <2>2 DEF Later
  <2> QED BY <2>0, <2>1, <2>3, <2>4, <2>5
<1>5. ASSUME Dispatch
      PROVE  Steady
  <2>1. rx = "dispatch" /\ rx' = "idle" /\ UNCHANGED <<usbIn, hostSent>>
    BY <1>5 DEF Dispatch, Handled, usbVars
  <2>2. PipeInv'
    BY <2>1 DEF InOrder, PipeInv
  <2>3. Below(rxRing, hostSent' + 1) /\ \A i \in DOMAIN usbIn' : Below(rxRing, usbIn'[i].id)
    BY <2>1 DEF InOrder, RingInv
  <2>4. \A k \in Nat : Later(k) => Later(k)'
    BY <1>1, <2>1 DEF Later
  <2> QED BY <2>1, <2>2, <2>3, <2>4
<1>6. ASSUME NEW f \in HostFrames, HostSend(f)
      PROVE  Steady
  <2> DEFINE g == [f EXCEPT !.id = hostSent + 1]
  <2>1. /\ UNCHANGED <<rx, frame>> /\ usbIn' = Append(usbIn, g) /\ hostSent' = hostSent + 1 /\ g.id = hostSent + 1
        /\ g \in Frames
    <3>1. hostSent < MaxFrames /\ MaxFrames \in Nat /\ MaxLen \in Nat
      BY <1>6, ConstantsAssumption DEF HostSend
    <3> QED BY <1>2, <1>6, <3>1 DEF HostSend, rxVars, HostFrames, Frames
  <2> HIDE DEF g
  <2>2. /\ DOMAIN usbIn = 1 .. Len(usbIn) /\ Len(usbIn) \in Nat /\ DOMAIN usbIn' = 1 .. (Len(usbIn) + 1)
        /\ \A i \in DOMAIN usbIn : usbIn'[i] = usbIn[i]
        /\ usbIn'[Len(usbIn) + 1] = g
    BY <1>2, <2>1, AppendElements
  <2>3. \A i \in DOMAIN usbIn' : \/ i \in DOMAIN usbIn /\ usbIn'[i] = usbIn[i]
                                 \/ i = Len(usbIn) + 1 /\ usbIn'[i].id = hostSent + 1
    BY <2>1, <2>2
  <2>4. \A i \in DOMAIN usbIn : usbIn[i].id \in 1 .. hostSent /\ usbIn[i].id < hostSent + 1
    BY <1>2 DEF InOrder, PipeInv
  <2>5. rx # "idle" => frame.id \in 1 .. hostSent /\ frame.id < hostSent + 1
    BY <1>2 DEF InOrder, PipeInv
  <2>6. PipeInv'
    <3>1. ASSUME NEW j \in DOMAIN usbIn'
          PROVE  /\ usbIn'[j].id \in 1 .. hostSent'
                 /\ rx # "idle" => frame.id < usbIn'[j].id
                 /\ \A i \in DOMAIN usbIn' : i < j => usbIn'[i].id < usbIn'[j].id
      <4>1. CASE j \in DOMAIN usbIn /\ usbIn'[j] = usbIn[j]
        <5>1. \A i \in DOMAIN usbIn' : i < j => i \in DOMAIN usbIn
          BY <2>2, <4>1
        <5>2. usbIn[j].id \in 1 .. hostSent + 1
          BY <1>2, <2>4, <4>1
        <5> QED BY <2>1, <2>2, <4>1, <5>1, <5>2 DEF InOrder, PipeInv
      <4>2. CASE j = Len(usbIn) + 1 /\ usbIn'[j].id = hostSent + 1
        <5>1. \A i \in DOMAIN usbIn' : i < j => i \in DOMAIN usbIn
          BY <2>2, <4>2
        <5>2. hostSent + 1 \in 1 .. hostSent + 1
          BY <1>2
        <5> QED BY <2>1, <2>2, <2>4, <2>5, <4>2, <5>1, <5>2
      <4> QED BY <2>3, <4>1, <4>2
    <3>2. rx # "idle" => frame.id \in 1 .. hostSent'
      BY <1>2, <2>1, <2>5
    <3> QED BY <2>1, <3>1, <3>2 DEF PipeInv
  <2>7. Below(rxRing, hostSent' + 1) /\ Below(rxRing, hostSent + 1)
    <3>1. \A j \in DOMAIN rxRing : rxRing[j][1] < hostSent + 1
      BY DEF InOrder, RingInv, Below
    <3>2. \A j \in DOMAIN rxRing : rxRing[j][1] < (hostSent + 1) + 1
      BY <1>2, <3>1
    <3> QED BY <2>1, <3>1, <3>2 DEF Below
  <2>8. \A i \in DOMAIN usbIn' : Below(rxRing, usbIn'[i].id)
    BY <2>3, <2>7 DEF InOrder, RingInv
  <2>9. ASSUME NEW k \in Nat, Later(k)
        PROVE  Later(k)'
    <3>1. k <= hostSent /\ k < hostSent + 1 /\ k <= hostSent + 1
      BY <1>2, <2>9 DEF Later
    <3> QED BY <1>1, <2>1, <2>3, <2>9, <3>1 DEF Later
  <2>10. rx' = "dispatch" => Below(rxRing, frame'.id)
    BY <2>1 DEF InOrder, RingInv
  <2> QED BY <2>1, <2>6, <2>7, <2>8, <2>9, <2>10
<1>7. ASSUME Disable
      PROVE  Steady
  <2>1. UNCHANGED <<rx, frame, hostSent>> /\ DOMAIN usbIn' = {}
    BY <1>7 DEF Disable
  <2>2. PipeInv'
    BY <2>1 DEF InOrder, PipeInv
  <2>3. /\ Below(rxRing, hostSent' + 1)
        /\ rx' = "dispatch" => Below(rxRing, frame'.id)
    BY <2>1 DEF InOrder, RingInv
  <2>4. \A k \in Nat : Later(k) => Later(k)'
    BY <1>1, <2>1 DEF Later
  <2>5. \A i \in DOMAIN usbIn' : Below(rxRing, usbIn'[i].id)
    BY <2>1
  <2> QED BY <2>1, <2>2, <2>3, <2>4, <2>5
<1>8. Steady
  BY <1>4, <1>5, <1>6, <1>7
<1> HIDE DEF Steady
<1>9. RingInv'
  BY <1>1, <1>8 DEF InOrder, RingInv, Steady
<1>10. ForwardInv'
  BY <1>1, <1>8 DEF InOrder, ForwardInv, Steady
<1>a. PipeInv'
  BY <1>8 DEF Steady
<1>11. GivenInv'
  <2>1. \A k \in Nat : Later(k) => Later(k)'
    BY <1>8 DEF Steady
  <2>2. sock \in Clients =>
          /\ \A i \in DOMAIN delivered[sock] : delivered[sock][i][1][1] \in Nat
          /\ forwarder[sock] = "forward" => rxbuf[sock][1][1] \in Nat
    BY GivenAreNumbers DEF InOrder
  <2> QED BY <1>1, <2>1, <2>2, LaterGiven
<1> QED BY <1>3, <1>9, <1>10, <1>11, <1>a DEF InOrder

(* The other steps touch neither frames nor the ring they are in. *)
LEMMA AsideInOrder ==
    ASSUME TypeInv, SpawnInv, InOrder, NEW c \in Clients,
           \/ Answer(c) \/ Announce(c) \/ Spawn(c)
           \/ \E n \in 1 .. MaxLen : ClientSend(c, n)
           \/ ClientRecv(c) \/ ClientClose(c)
           \/ Reader(c) \/ Sender(c)
           \/ Doze(c) \/ Stops(c)
    PROVE  InOrder'
<1>1. UNCHANGED <<rxRing, rx, frame, usbIn, hostSent, sock, plen, rxbuf, delivered>>
  BY DEF Answer, Announce, Spawn, ClientSend, ClientRecv, ClientClose, Reader, Read, ReadFails, Push, Pushed,
     Deactivate, SayClose, Sender, Sleep, Fill, Loop, Send, Flush, Doze, Stops,
     channelVars, forwardVars, rxVars, usbVars
<1>2. ASSUME NEW d \in Clients
      PROVE  \/ forwarder'[d] = forwarder[d]
             \/ forwarder[d] \in Calm /\ forwarder'[d] \in Calm \cup {"end", "lost"}
  <2>1. forwarder \in [Clients -> {"none", "idle", "asleep", "payload", "forward", "end", "lost"}]
    BY DEF TypeInv, ForwardTypes
  <2>2. CASE Spawn(c)
    BY <1>2, <2>1, <2>2 DEF Spawn, SpawnInv, Calm, Looping
  <2>3. CASE Answer(c) \/ Announce(c) \/ (\E n \in 1 .. MaxLen : ClientSend(c, n)) \/ ClientRecv(c) \/ ClientClose(c)
    BY <2>3 DEF Answer, Announce, ClientSend, ClientRecv, ClientClose, forwardVars
  <2>4. CASE Reader(c)
    BY <1>2, <2>1, <2>4 DEF Reader, Read, ReadFails, Push, Pushed, Deactivate, SayClose, forwardVars, Woken, Calm
  <2>5. CASE Sender(c)
    BY <2>5 DEF Sender, Sleep, Fill, Loop, Send, Flush, forwardVars
  <2>6. CASE Doze(c) \/ Stops(c)
    BY <1>2, <2>1, <2>6 DEF Doze, Stops, Calm
  <2> QED BY <2>2, <2>3, <2>4, <2>5, <2>6
<1> QED BY <1>1, <1>2, SameIn

(* Every step keeps the frames of the host in order. *)
LEMMA FromHostKept ==
    ASSUME OutInv, FromHostInv, [Next]_vars
    PROVE  FromHostInv'
<1> SUFFICES ASSUME Clean'
             PROVE  InOrder'
  BY DEF FromHostInv, InOrder
<1>1. Clean /\ Uncrowded
  BY CleanStays
<1>2. InOrder /\ TypeInv /\ NewInv /\ SpawnInv /\ QuietInv
  BY <1>1 DEF FromHostInv, InOrder, OutInv
<1>3. ASSUME NEW c \in Clients, Accept(c)
      PROVE  InOrder'
  BY <1>2, <1>3, AcceptInOrder
<1>4. ASSUME NEW c \in Clients,
             \/ Answer(c) \/ Announce(c) \/ Spawn(c)
             \/ \E n \in 1 .. MaxLen : ClientSend(c, n)
             \/ ClientRecv(c) \/ ClientClose(c)
             \/ Reader(c) \/ Sender(c)
      PROVE  InOrder'
  BY <1>2, <1>4, AsideInOrder
<1>5. ASSUME NEW c \in Clients, Forwarder(c)
      PROVE  InOrder'
  <2>1. c = sock
    BY <1>1, <1>2, <1>5, ActorHasChannel
  <2>2. CASE Doze(c) \/ Stops(c)
    BY <1>2, <2>2, AsideInOrder
  <2>3. CASE TakeLength(c)
    BY <1>2, <2>1, <2>3, TakeLengthInOrder
  <2>4. CASE TakePayload(c)
    BY <1>2, <2>1, <2>4, TakePayloadInOrder
  <2>5. CASE Forward(c)
    BY <1>2, <2>1, <2>5, ForwardInOrder
  <2>6. CASE TimesOut(c)
    <3>1. /\ sock \in Clients /\ forwarder[sock] = "payload" /\ rx # "payload" /\ Len(rxRing) < plen[sock]
      BY <2>1, <2>6 DEF TimesOut
    <3>2. rxRing # << >> /\ plen[sock] \in Nat /\ plen[sock] <= Len(rxRing)
      BY <1>2, <3>1, PayloadArrives
    <3>3. Len(rxRing) \in Nat
      BY <1>2, NumbersAreNumbers
    <3> QED BY <3>1, <3>2, <3>3
  <2> QED BY <1>5, <2>2, <2>3, <2>4, <2>5, <2>6 DEF Forwarder
<1>6. CASE WriteLength
  BY <1>2, <1>6, WriteLengthInOrder
<1>7. CASE WritePayload
  BY <1>2, <1>7, WritePayloadInOrder
<1>8. CASE Parse \/ Dispatch \/ (\E f \in HostFrames : HostSend(f)) \/ Disable
  BY <1>2, <1>8, PipeInOrder
<1>9. CASE Enable \/ UNCHANGED vars
  <2>1. UNCHANGED <<rxRing, rx, frame, usbIn, hostSent, sock, plen, rxbuf, delivered, forwarder>>
    BY <1>9 DEF Enable, vars, channelVars, forwardVars, rxVars, usbVars
  <2> QED BY <1>2, <2>1, SameIn
<1> QED BY <1>3, <1>4, <1>5, <1>6, <1>7, <1>8, <1>9 DEF Next, Receiver

(* There are no frames at first. *)
LEMMA InitFromHost ==
    ASSUME Init
    PROVE  FromHostInv
<1>1. /\ DOMAIN << >> = {} /\ sock \notin Clients /\ rx = "idle" /\ usbIn = << >> /\ rxRing = << >>
      /\ delivered = [c \in Clients |-> << >>]
  BY ConstantsAssumption DEF Init, Clients, NoClient
<1> QED BY <1>1 DEF FromHostInv, PipeInv, RingInv, Whole, Complete, Below, ForwardInv, GivenInv, WholeInv

(* The inductive invariant holds always. *)
LEMMA Invariance == Spec => []IInv
<1>1. Init => IInv
  BY InitOut, InitFromHost DEF IInv
<1>2. IInv /\ [Next]_vars => IInv'
  BY OutKept, FromHostKept DEF IInv
<1> QED BY <1>1, <1>2, PTL DEF Spec

(* Unless the ring overran, a frame was glued from two by a replug or        *)
(* threads of two connections met on the channel, each message an            *)
(* application is given is one whole frame of the host, and they come in the *)
(* order in which the host sent them.                                        *)
THEOREM FramesInOrder == Spec => []FramesWhole
<1>1. IInv => FramesWhole
  <2> SUFFICES ASSUME OutInv, FromHostInv, Clean, NEW c \in Clients, NEW i \in DOMAIN delivered[c]
               PROVE  /\ delivered[c][i] = Units(delivered[c][i][1][1], delivered[c][i][1][3])
                      /\ i > 1 => delivered[c][i][1][1] > delivered[c][i - 1][1][1]
    BY DEF IInv, FramesWhole, Clean
  <2>1. WholeInv
    BY DEF FromHostInv
  <2>2. delivered[c] \in Seq(Seq(RxUnits))
    BY DEF OutInv, TypeInv, DeliveryTypes
  <2>3. IsFrame(delivered[c][i])
    BY <2>1 DEF WholeInv
  <2>4. ASSUME i > 1
        PROVE  delivered[c][i][1][1] > delivered[c][i - 1][1][1]
    <3>1. i - 1 \in DOMAIN delivered[c] /\ i - 1 < i
      BY <2>2, <2>4
    <3>2. delivered[c][i - 1][1][1] < delivered[c][i][1][1]
      BY <2>1, <3>1 DEF WholeInv
    <3> QED BY <3>2
  <2> QED BY <2>3, <2>4 DEF IsFrame
<1> QED BY <1>1, Invariance, PTL
=============================================================================
