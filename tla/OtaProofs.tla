----------------------------- MODULE OtaProofs -----------------------------
(***************************************************************************)
(* Proofs about Ota for any files, packages, number of chunks and of       *)
(* sessions.  Two results: an uploader that reports success was answered   *)
(* about its own package, and, where unzip does not fail half way and a    *)
(* flush does not fail silently, the daemon keeps the promise of module    *)
(* Update.                                                                 *)
(***************************************************************************)
EXTENDS Ota, TLAPS

Talking == link /\ Awaiting

(* One packet or one answer is under way.  Where the daemon is tells which  *)
(* question of the uploader it belongs to.                                  *)
AtReady ==
    Talking /\ dpc = "ready" =>
        /\ hpc = "begin" /\ part = 0 /\ down = << >>
        /\ \E m \in Packets : up = <<m>> /\ m.type \in {"begin", "bad"} /\ m.pkg = pkg

AtChunks ==
    Talking /\ dpc = "chunks" =>
        /\ digest \in {pkg, None}
        /\ \/ /\ hpc = "begin" /\ part = 0 /\ received = 0
              /\ up = << >> /\ down = <<"ack">>
           \/ /\ hpc = "chunk" /\ part \in 1 .. Parts /\ received = part
              /\ up = << >> /\ down = <<"ack">>
           \/ /\ hpc = "chunk" /\ part \in 1 .. Parts /\ received = part - 1
              /\ \E m \in Packets : up = <<m>> /\ m.type \in {"chunk", "bad"}
              /\ down = << >>
           \/ /\ hpc = "end"
              /\ \E m \in Packets : up = <<m>> /\ m.type \in {"end", "bad"}
              /\ down = << >>

AtVerify ==
    Talking /\ dpc = "verify" =>
        /\ up = << >> /\ down = << >> /\ digest \in {pkg, None}
        /\ hpc = "end" \/ received # Parts

AtApply ==
    Talking /\ dpc \in {"extract", "install", "reboot"} =>
        up = << >> /\ hpc = "end" /\ down = <<"ack">> /\ verified = pkg

AtClosed ==
    Talking /\ dpc = "closed" =>
        /\ up = << >>
        /\ \/ down \in {<< >>, <<"nak">>}
           \/ hpc = "end" /\ down = <<"ack">> /\ verified = pkg

NoLinkNoReply == ~link => down = << >>

SessionInv ==
    /\ hpc \in {"idle", "begin", "chunk", "end", "done", "failed"}
    /\ dpc \in {"closed", "ready", "chunks", "verify", "extract", "install", "reboot"}
    /\ link \in BOOLEAN /\ received \in Nat
    /\ Awaiting => pkg \in Packages
    /\ NoLinkNoReply
    /\ AtReady /\ AtChunks /\ AtVerify /\ AtApply /\ AtClosed

(* What is staged and extracted is the accepted package's, and the files    *)
(* install_tree is through with are in place.                               *)
StagedInv ==
    /\ dpc \in {"extract", "install", "reboot"} => digest \in Packages /\ zip = Zip(digest)
    /\ dpc # "install" => extract = NoFiles
    /\ dpc = "install" =>
        /\ extract = [f \in Files |-> IF f \in FilesOf[digest] THEN digest ELSE None]
        /\ todo \subseteq FilesOf[digest]
        /\ \A f \in FilesOf[digest] \ todo : disk[f] = Whole(digest)
    /\ DOMAIN disk = Files /\ DOMAIN flash = Files
    /\ dpc \in {"closed", "ready", "chunks", "verify", "extract", "install", "reboot"}

-----------------------------------------------------------------------------
(* The queues never hold more than one element. *)
LEMMA OneElement ==
    ASSUME NEW m
    PROVE  /\ Append(<< >>, m) = <<m>>
           /\ Head(<<m>>) = m /\ Tail(<<m>>) = << >> /\ <<m>> # << >>
OBVIOUS

(* What Transmits leaves on an empty channel. *)
LEMMA TransmitsOne ==
    ASSUME NEW t \in {"begin", "chunk", "end", "abort"}, NEW p \in Versions, NEW n \in 0 .. Parts,
           up = << >>, Transmits(Packet(t, p, n))
    PROVE  \E m \in Packets : up' = <<m>> /\ m.type \in {t, "bad"} /\ m.pkg = p
  <1>1. PICK m : up' = Append(up, m) /\ m \in {Packet(t, p, n), [Packet(t, p, n) EXCEPT !.type = "bad"],
                                              [Packet(t, p, n) EXCEPT !.intact = FALSE]}
    BY DEF Transmits
  <1>2. Packet(t, p, n) \in Packets /\ Packet(t, p, n).type = t /\ Packet(t, p, n).pkg = p
    BY DEF Packet, Packets
  <1>3. m \in Packets /\ m.type \in {t, "bad"} /\ m.pkg = p
    BY <1>1, <1>2 DEF Packets
  <1> QED BY <1>1, <1>3, OneElement

(* The uploader and otad start apart. *)
LEMMA SessionInit == Init => SessionInv
  <1> SUFFICES ASSUME Init PROVE SessionInv
    OBVIOUS
  <1>1. link = FALSE /\ hpc = "idle" /\ dpc = "closed" /\ down = << >> /\ received = 0
    BY DEF Init
  <1> QED BY <1>1 DEF SessionInv, NoLinkNoReply, AtReady, AtChunks, AtVerify, AtApply, AtClosed, Talking, Awaiting

(* run_ota: each question is asked when the one before was answered. *)
LEMMA HostStartKeeps ==
    ASSUME SessionInv, NEW p \in Packages, HostStart(p)
    PROVE  SessionInv'
  <1> USE DEF SessionInv, HostStart, sessionVars, applyVars
  <1>1. down = << >> /\ up = << >> /\ dpc = "ready" /\ dpc' = "ready" /\ link' /\ hpc' = "begin" /\ down' = << >>
        /\ part' = 0 /\ pkg' = p
    BY DEF NoLinkNoReply
  <1>2. \E m \in Packets : up' = <<m>> /\ m.type \in {"begin", "bad"} /\ m.pkg = p
    BY <1>1, TransmitsOne, ConstantsAssumption DEF Versions
  <1>3. AtReady'
    BY <1>1, <1>2 DEF AtReady
  <1>4. (AtChunks /\ AtVerify /\ AtApply /\ AtClosed /\ NoLinkNoReply)'
    BY <1>1 DEF AtChunks, AtVerify, AtApply, AtClosed, NoLinkNoReply
  <1> QED BY <1>1, <1>3, <1>4 DEF Awaiting

LEMMA HostAckedKeeps ==
    ASSUME SessionInv, HostAcked
    PROVE  SessionInv'
  <1> USE DEF SessionInv, sessionVars, applyVars, Acked, Awaiting
  <1>1. link /\ Talking
    BY DEF HostAcked, NoLinkNoReply, Talking
  <1>2. CASE dpc = "chunks"
    <2>1. up = << >> /\ down = <<"ack">> /\ down' = << >> /\ digest \in {pkg, None} /\ pkg \in Versions
      BY <1>1, <1>2, OneElement DEF HostAcked, AtChunks, Versions
    <2>2. CASE hpc \in {"begin", "chunk"} /\ part < Parts
      <3>1. hpc' = "chunk" /\ part' = part + 1 /\ Transmits(Packet("chunk", pkg, part + 1))
            /\ part \in 0 .. (Parts - 1) /\ received = part
        BY <1>1, <1>2, <2>1, <2>2, ConstantsAssumption DEF HostAcked, AtChunks
      <3>2. \E m \in Packets : up' = <<m>> /\ m.type \in {"chunk", "bad"}
        BY <2>1, <3>1, TransmitsOne, ConstantsAssumption
      <3>3. part' \in 1 .. Parts /\ received' = part' - 1 /\ digest' = digest /\ pkg' = pkg /\ dpc' = "chunks" /\ link' = link
        BY <1>2, <3>1, ConstantsAssumption DEF HostAcked
      <3> QED BY <1>1, <2>1, <3>1, <3>2, <3>3 DEF AtReady, AtChunks, AtVerify, AtApply, AtClosed, NoLinkNoReply
    <2>3. CASE hpc = "chunk" /\ part = Parts
      <3>1. hpc' = "end" /\ Transmits(Packet("end", pkg, 0))
        BY <2>3, ConstantsAssumption DEF HostAcked
      <3>2. \E m \in Packets : up' = <<m>> /\ m.type \in {"end", "bad"}
        BY <2>1, <3>1, TransmitsOne, ConstantsAssumption
      <3>3. digest' = digest /\ pkg' = pkg /\ dpc' = "chunks" /\ link' = link /\ received' = received
        BY <1>2 DEF HostAcked
      <3> QED BY <1>1, <2>1, <3>1, <3>2, <3>3 DEF AtReady, AtChunks, AtVerify, AtApply, AtClosed, NoLinkNoReply
    <2> QED BY <1>1, <1>2, <2>1, <2>2, <2>3, ConstantsAssumption DEF AtChunks, HostAcked
  <1>3. CASE dpc # "chunks"
    <2>1. hpc = "end"
      BY <1>1, <1>3, OneElement DEF HostAcked, AtReady, AtVerify, AtApply, AtClosed
    <2>2. hpc' = "done" /\ dpc' = dpc /\ link' = link /\ received' = received
      BY <2>1 DEF HostAcked
    <2> QED BY <1>1, <2>2 DEF AtReady, AtChunks, AtVerify, AtApply, AtClosed, NoLinkNoReply, Talking
  <1> QED BY <1>2, <1>3

(* The uploader gives up: nobody waits for an answer any more. *)
LEMMA HostEndsKeeps ==
    ASSUME SessionInv, HostFails \/ HostAborts \/ HostClose \/ Cut
    PROVE  SessionInv'
  <1> USE DEF SessionInv, sessionVars, applyVars, hostVars, Talking, Awaiting
  <1>1. CASE HostFails \/ HostAborts
    BY <1>1 DEF HostFails, HostAborts, AtReady, AtChunks, AtVerify, AtApply, AtClosed, NoLinkNoReply
  <1>2. CASE HostClose \/ Cut
    BY <1>2 DEF HostClose, Cut, AtReady, AtChunks, AtVerify, AtApply, AtClosed, NoLinkNoReply
  <1> QED BY <1>1, <1>2

(* A step of the daemon leaves the uploader and the link alone. *)
LEMMA HostStays ==
    ASSUME UNCHANGED <<hostVars, link>>
    PROVE  /\ Talking' = Talking /\ Awaiting' = Awaiting
           /\ hpc' = hpc /\ pkg' = pkg /\ part' = part /\ link' = link
BY DEF hostVars, Talking, Awaiting

(* run_ota_session, from OTA_BEGIN to the digest. *)
LEMMA BeginKeeps ==
    ASSUME SessionInv, Begin
    PROVE  SessionInv'
  <1> USE HostStays DEF SessionInv, Begin, EndSession
  <1>1. CASE Talking
    <2>1. PICK m \in Packets : up = <<m>> /\ m.type \in {"begin", "bad"} /\ m.pkg = pkg
      BY <1>1 DEF AtReady
    <2>2. hpc = "begin" /\ part = 0 /\ down = << >> /\ link /\ up' = << >> /\ Head(up) = m
      BY <1>1, <2>1, OneElement DEF AtReady, Talking
    <2>3. CASE dpc' = "chunks"
      <3>1. down' = <<"ack">> /\ digest' \in {pkg, None} /\ received' = 0
        BY <2>1, <2>2, <2>3, OneElement DEF Reply
      <3> QED BY <2>2, <2>3, <3>1 DEF AtReady, AtChunks, AtVerify, AtApply, AtClosed, NoLinkNoReply
    <2>4. CASE dpc' = "closed"
      <3>1. down' \in {<< >>, <<"nak">>} /\ received' = 0
        BY <2>2, <2>4, OneElement DEF Reply
      <3> QED BY <2>2, <2>4, <3>1 DEF AtReady, AtChunks, AtVerify, AtApply, AtClosed, NoLinkNoReply
    <2> QED BY <2>3, <2>4
  <1>2. CASE ~Talking
    BY <1>2 DEF AtReady, AtChunks, AtVerify, AtApply, AtClosed, NoLinkNoReply, Reply
  <1> QED BY <1>1, <1>2

LEMMA ChunkKeeps ==
    ASSUME SessionInv, Chunk
    PROVE  SessionInv'
  <1> USE HostStays DEF SessionInv, Chunk, EndSession, applyVars
  <1>1. CASE Talking
    <2>1. /\ hpc = "chunk" /\ part \in 1 .. Parts /\ received = part - 1 /\ down = << >>
          /\ link /\ up' = << >> /\ digest \in {pkg, None}
      BY <1>1, OneElement DEF AtChunks, Talking
    <2>2. CASE Head(up).intact
      <3>1. down' = <<"ack">> /\ received' = part /\ dpc' = "chunks" /\ digest' = digest
        BY <2>1, <2>2, OneElement DEF Reply
      <3> QED BY <2>1, <3>1 DEF AtReady, AtChunks, AtVerify, AtApply, AtClosed, NoLinkNoReply
    <2>3. CASE ~Head(up).intact
      <3>1. down' = <<"nak">> /\ received' = 0 /\ dpc' = "closed"
        BY <2>1, <2>3, OneElement DEF Reply
      <3> QED BY <2>1, <3>1 DEF AtReady, AtChunks, AtVerify, AtApply, AtClosed, NoLinkNoReply
    <2> QED BY <2>2, <2>3
  <1>2. CASE ~Talking
    BY <1>2 DEF AtReady, AtChunks, AtVerify, AtApply, AtClosed, NoLinkNoReply, Reply
  <1> QED BY <1>1, <1>2

LEMMA LeaveLoopKeeps ==
    ASSUME SessionInv, LeaveLoop
    PROVE  SessionInv'
  <1> USE HostStays DEF SessionInv, LeaveLoop, sessionVars
  <1>1. CASE Talking
    <2>1. down = << >> /\ up' = << >> /\ digest \in {pkg, None} /\ (hpc = "end" \/ received # Parts)
      BY <1>1, OneElement DEF AtChunks, Talking
    <2> QED BY <2>1 DEF AtReady, AtChunks, AtVerify, AtApply, AtClosed, NoLinkNoReply
  <1>2. CASE ~Talking
    BY <1>2 DEF AtReady, AtChunks, AtVerify, AtApply, AtClosed, NoLinkNoReply
  <1> QED BY <1>1, <1>2

LEMMA VerifyKeeps ==
    ASSUME SessionInv, Verify
    PROVE  SessionInv'
  <1> USE HostStays DEF SessionInv, Verify, sessionVars
  <1>1. CASE Talking
    <2>1. down = << >> /\ up' = << >> /\ link
      BY <1>1 DEF AtVerify, Talking
    <2>2. CASE dpc' = "closed"
      <3>1. down' \in {<< >>, <<"nak">>} /\ received' = 0
        BY <2>1, <2>2, OneElement DEF Reply, EndSession
      <3> QED BY <2>1, <2>2, <3>1 DEF AtReady, AtChunks, AtVerify, AtApply, AtClosed, NoLinkNoReply
    <2>3. CASE dpc' = "extract"
      <3>1. received = Parts /\ digest # None /\ verified' = digest /\ Reply("ack") /\ received' = received
        BY <2>3 DEF EndSession
      <3>2. hpc = "end" /\ digest = pkg /\ down' = <<"ack">>
        BY <1>1, <2>1, <3>1, OneElement DEF AtVerify, Reply
      <3> QED BY <2>1, <2>3, <3>1, <3>2 DEF AtReady, AtChunks, AtVerify, AtApply, AtClosed, NoLinkNoReply
    <2> QED BY <2>2, <2>3 DEF EndSession
  <1>2. CASE ~Talking
    BY <1>2 DEF AtReady, AtChunks, AtVerify, AtApply, AtClosed, NoLinkNoReply, Reply, EndSession
  <1> QED BY <1>1, <1>2

(* The rest of the daemon says nothing to the uploader. *)
LEMMA QuietKeeps ==
    ASSUME SessionInv,
           Open \/ Abort \/ Unzip \/ InstallFails \/ Finish \/ (\E f \in Files : Install(f) \/ WriteBack(f))
    PROVE  SessionInv'
  <1> USE HostStays DEF SessionInv, sessionVars, applyVars, EndSession,
                        AtReady, AtChunks, AtVerify, AtApply, AtClosed, NoLinkNoReply
  <1>1. CASE Open
    BY <1>1 DEF Open, Talking
  <1>2. CASE Abort
    BY <1>2, OneElement DEF Abort
  <1>3. CASE Unzip
    BY <1>3 DEF Unzip
  <1>4. CASE InstallFails \/ Finish
    BY <1>4 DEF InstallFails, Finish
  <1>5. CASE \E f \in Files : Install(f) \/ WriteBack(f)
    BY <1>5 DEF Install, WriteBack
  <1> QED BY <1>1, <1>2, <1>3, <1>4, <1>5

LEMMA DownKeeps ==
    ASSUME SessionInv, Down
    PROVE  SessionInv'
BY DEF Down, EndSession, hostVars, SessionInv, AtReady, AtChunks, AtVerify, AtApply, AtClosed, NoLinkNoReply,
       Talking, Awaiting

LEMMA SessionKeeps == SessionInv /\ [Next]_vars => SessionInv'
  <1> SUFFICES ASSUME SessionInv, [Next]_vars PROVE SessionInv'
    OBVIOUS
  <1>1. CASE \E p \in Packages : HostStart(p)
    BY <1>1, HostStartKeeps
  <1>2. CASE Host \/ Cut
    BY <1>2, HostAckedKeeps, HostEndsKeeps DEF Host
  <1>3. CASE Daemon
    BY <1>3, BeginKeeps, ChunkKeeps, LeaveLoopKeeps, VerifyKeeps, QuietKeeps, DownKeeps DEF Daemon, Reboot
  <1>4. CASE \E f \in Files : WriteBack(f)
    BY <1>4, QuietKeeps
  <1>5. CASE PowerCut
    BY <1>5, DownKeeps DEF PowerCut
  <1>6. CASE UNCHANGED vars
    BY <1>6 DEF vars, hostVars, sessionVars, SessionInv, AtReady, AtChunks, AtVerify, AtApply, AtClosed,
                NoLinkNoReply, Talking, Awaiting
  <1> QED BY <1>1, <1>2, <1>3, <1>4, <1>5, <1>6 DEF Next

(* The uploader and the daemon stay in step whatever is cut, damaged or     *)
(* aborted, and whatever loses power.                                       *)
THEOREM InStep == Spec => []SessionInv
  <1> QED BY SessionInit, SessionKeeps, PTL DEF Spec

(* The answer that makes the uploader report success is the one the daemon  *)
(* gave after it compared the whole zip's digest, for the uploader's own    *)
(* package: expect_ack, which does not look at the part number, is never    *)
(* given an answer to another question.                                     *)
THEOREM SuccessVerified == Spec => SuccessIsVerified
  <1>1. SessionInv /\ [Next]_vars => (hpc # "done" /\ hpc' = "done" => verified = pkg)
    <2> SUFFICES ASSUME SessionInv, [Next]_vars, hpc # "done", hpc' = "done" PROVE verified = pkg
      OBVIOUS
    <2>1. CASE HostAcked
      <3>1. Talking /\ hpc = "end"
        BY <2>1 DEF HostAcked, SessionInv, NoLinkNoReply, Talking, Awaiting, Acked
      <3>2. dpc \in {"extract", "install", "reboot", "closed"}
        BY <2>1, <3>1, OneElement DEF HostAcked, Acked, SessionInv, AtReady, AtChunks, AtVerify
      <3> QED BY <2>1, <3>1, <3>2, OneElement DEF HostAcked, Acked, SessionInv, AtApply, AtClosed
    <2>2. CASE \E p \in Packages : HostStart(p)
      BY <2>2 DEF HostStart
    <2>3. CASE HostFails \/ HostAborts \/ HostClose \/ Cut
      BY <2>3 DEF HostFails, HostAborts, HostClose, Cut, hostVars
    <2>4. CASE Daemon \/ PowerCut \/ (\E f \in Files : WriteBack(f))
      BY <2>4 DEF Daemon, PowerCut, WriteBack, Open, Begin, Chunk, Abort, LeaveLoop, Verify, Unzip, Install,
                  InstallFails, Finish, Reboot, Down, hostVars
    <2>5. CASE UNCHANGED vars
      BY <2>5 DEF vars, hostVars
    <2> QED BY <2>1, <2>2, <2>3, <2>4, <2>5 DEF Next, Host
  <1>2. SessionInv /\ [Next]_vars => [hpc # "done" /\ hpc' = "done" => verified = pkg]_vars
    BY <1>1
  <1> QED BY <1>2, InStep, PTL DEF Spec, SuccessIsVerified

-----------------------------------------------------------------------------
(* The failures of unzip and of a flush that OtaStale and OtaFlush show to  *)
(* break the promise.                                                       *)
NoSilentFault == "unzip" \notin Faults /\ "flush" \notin Faults

(* The packages named on the channel are packages. *)
SortInv == pkg \in Versions /\ digest \in Versions /\ up \in Seq(Packets)

LEMMA SortInit == Init => SortInv
BY DEF Init, SortInv, Versions

LEMMA TransmitsSort ==
    ASSUME NEW t \in {"begin", "chunk", "end", "abort"}, NEW p \in Versions, NEW n \in 0 .. Parts,
           up \in Seq(Packets), Transmits(Packet(t, p, n))
    PROVE  up' \in Seq(Packets)
  <1>1. PICK m : up' = Append(up, m) /\ m \in {Packet(t, p, n), [Packet(t, p, n) EXCEPT !.type = "bad"],
                                              [Packet(t, p, n) EXCEPT !.intact = FALSE]}
    BY DEF Transmits
  <1>2. Packet(t, p, n) \in Packets
    BY DEF Packet, Packets
  <1>3. m \in Packets
    BY <1>1, <1>2 DEF Packets
  <1> QED BY <1>1, <1>3

LEMMA TailSort ==
    ASSUME NEW S, NEW q \in Seq(S), q # << >>
    PROVE  Head(q) \in S /\ Tail(q) \in Seq(S)
OBVIOUS

(* What run_ota and run_ota_session put on the channel and take from it. *)
LEMMA SortKeeps ==
    ASSUME SortInv, SessionInv, [Next]_vars
    PROVE  SortInv'
  <1> USE ConstantsAssumption DEF SortInv
  <1>0. << >> \in Seq(Packets)
    OBVIOUS
  <1>1. ASSUME NEW p \in Packages, HostStart(p) PROVE SortInv'
    <2>1. p \in Versions /\ Transmits(Packet("begin", p, 0))
      BY <1>1 DEF HostStart, Versions
    <2> QED BY <1>1, <2>1, TransmitsSort DEF HostStart, sessionVars
  <1>2. CASE HostAcked
    <2>0. Talking
      BY <1>2 DEF HostAcked, SessionInv, NoLinkNoReply, Talking, Awaiting, Acked
    <2>1. CASE hpc \in {"begin", "chunk"} /\ part < Parts
      <3>1. part + 1 \in 0 .. Parts
        BY <1>2, <2>0, <2>1, OneElement DEF HostAcked, Acked, SessionInv, AtReady, AtChunks, AtVerify, AtApply, AtClosed
      <3> QED BY <1>2, <2>1, <3>1, TransmitsSort DEF HostAcked, sessionVars
    <2>2. CASE hpc = "chunk" /\ part = Parts
      BY <1>2, <2>2, TransmitsSort DEF HostAcked, sessionVars
    <2>3. CASE hpc = "end"
      BY <1>2, <2>3 DEF HostAcked, sessionVars
    <2> QED BY <1>2, <2>1, <2>2, <2>3 DEF HostAcked
  <1>3. CASE HostAborts
    BY <1>3, TransmitsSort DEF HostAborts, sessionVars
  <1>4. CASE HostFails \/ HostClose \/ Cut
    BY <1>0, <1>4 DEF HostFails, HostClose, Cut, sessionVars, hostVars, Versions
  <1>5. CASE Begin
    <2>1. Head(up) \in Packets /\ up' \in Seq(Packets)
      BY <1>5, TailSort DEF Begin
    <2> QED BY <1>5, <2>1 DEF Begin, hostVars, EndSession, Versions, Packets
  <1>6. CASE Chunk \/ Abort \/ LeaveLoop
    <2>1. up' = << >> \/ (up # << >> /\ up' = Tail(up))
      BY <1>6 DEF Chunk, Abort, LeaveLoop
    <2>2. up' \in Seq(Packets)
      <3>1. CASE up' = << >>
        BY <1>0, <3>1
      <3>2. CASE up # << >> /\ up' = Tail(up)
        <4>1. Tail(up) \in Seq(Packets)
          BY <3>2, TailSort
        <4> QED BY <3>2, <4>1
      <3> QED BY <2>1, <3>1, <3>2
    <2> QED BY <1>6, <2>2 DEF Chunk, Abort, LeaveLoop, hostVars, sessionVars, EndSession, Versions
  <1>7. CASE Open \/ Verify \/ Unzip
    BY <1>0, <1>7 DEF Open, Verify, Unzip, hostVars, sessionVars, EndSession, Versions
  <1>7b. CASE InstallFails \/ Finish \/ Down
    BY <1>0, <1>7b DEF InstallFails, Finish, Down, hostVars, sessionVars, EndSession, Versions
  <1>8. CASE \E f \in Files : Install(f) \/ WriteBack(f)
    BY <1>8 DEF Install, WriteBack, hostVars, sessionVars
  <1>9. CASE UNCHANGED vars
    BY <1>9 DEF vars, hostVars, sessionVars
  <1> QED BY <1>1, <1>2, <1>3, <1>4, <1>5, <1>6, <1>7, <1>7b, <1>8, <1>9 DEF Next, Host, Daemon, Reboot, PowerCut

(* Nothing is staged when otad starts. *)
LEMMA StagedInit == Init => StagedInv
BY DEF Init, StagedInv

(* OTA_ZIP is of the package whose digest it has. *)
LEMMA ZipSays ==
    ASSUME NEW p, zip = Zip(p)
    PROVE  zip[1][1] = p
BY ConstantsAssumption DEF Zip

(* apply_update starts from an empty /tmp/ota_extract. *)
LEMMA UnzipKeeps ==
    ASSUME NoSilentFault, StagedInv, Unzip
    PROVE  StagedInv'
  <1>1. /\ extract' = Extracted(FilesOf[zip[1][1]])
        /\ todo' = {f \in Files : extract'[f] # None}
        /\ dpc' = "install" /\ dpc = "extract" /\ digest' = digest /\ disk' = disk /\ flash' = flash /\ zip' = zip
    BY DEF NoSilentFault, Unzip, sessionVars
  <1>2. digest \in Packages /\ zip = Zip(digest) /\ extract = NoFiles
    BY <1>1 DEF StagedInv
  <1>3. zip[1][1] = digest /\ digest # None /\ FilesOf[digest] \subseteq Files
    BY <1>2, ZipSays, ConstantsAssumption DEF None
  <1>4. extract' = [f \in Files |-> IF f \in FilesOf[digest] THEN digest ELSE None]
    BY <1>1, <1>2, <1>3 DEF Extracted, NoFiles
  <1>5. todo' = FilesOf[digest]
    BY <1>1, <1>3, <1>4
  <1> QED BY <1>1, <1>2, <1>4, <1>5 DEF StagedInv

(* install_tree puts the accepted package's file in place. *)
LEMMA InstallPuts ==
    ASSUME NoSilentFault, StagedInv, NEW f \in Files, Install(f)
    PROVE  f \in FilesOf[digest] /\ disk' = [disk EXCEPT ![f] = Whole(digest)]
  <1>1. disk' = [disk EXCEPT ![f] = Whole(extract[f])] /\ f \in todo /\ dpc = "install"
    BY DEF NoSilentFault, Install
  <1>2. f \in FilesOf[digest] /\ extract[f] = digest
    BY <1>1 DEF StagedInv
  <1> QED BY <1>1, <1>2

LEMMA StagedKeeps ==
    ASSUME NoSilentFault, SortInv, StagedInv, [Next]_vars
    PROVE  StagedInv'
  <1>1. CASE (\E p \in Packages : HostStart(p)) \/ Host \/ Cut
    BY <1>1 DEF StagedInv, HostStart, Host, HostAcked, HostFails, HostAborts, HostClose, Cut, sessionVars, applyVars
  <1>2. CASE Open \/ Begin \/ Chunk \/ Abort \/ LeaveLoop
    BY <1>2 DEF StagedInv, Open, Begin, Chunk, Abort, LeaveLoop, sessionVars, applyVars, EndSession
  <1>3. CASE Verify
    <2>1. CASE dpc' = "closed"
      BY <1>3, <2>1 DEF StagedInv, Verify, applyVars, EndSession
    <2>2. CASE dpc' = "extract"
      <3>1. digest \in Packages /\ zip = Zip(digest) /\ digest' = digest /\ zip' = zip
        <4>1. digest # None /\ zip = Zip(digest) /\ UNCHANGED sessionVars
          BY <1>3, <2>2 DEF Verify, EndSession
        <4> QED BY <4>1 DEF SortInv, Versions, sessionVars
      <3> QED BY <1>3, <2>2, <3>1 DEF StagedInv, Verify, applyVars
    <2> QED BY <1>3, <2>1, <2>2 DEF Verify, EndSession
  <1>4. CASE Unzip
    BY <1>4, UnzipKeeps
  <1>5. ASSUME NEW f \in Files, Install(f) PROVE StagedInv'
    <2>1. disk' = [disk EXCEPT ![f] = Whole(digest)]
      BY <1>5, InstallPuts
    <2> QED BY <1>5, <2>1 DEF Install, StagedInv, sessionVars
  <1>6. CASE InstallFails \/ Finish
    BY <1>6 DEF StagedInv, InstallFails, Finish, sessionVars, EndSession
  <1>7. CASE Down
    BY <1>7 DEF StagedInv, Down, EndSession
  <1>8. ASSUME NEW f \in Files, WriteBack(f) PROVE StagedInv'
    BY <1>8 DEF StagedInv, WriteBack, sessionVars, applyVars
  <1>9. CASE UNCHANGED vars
    BY <1>9 DEF StagedInv, vars, sessionVars, applyVars
  <1> QED BY <1>1, <1>2, <1>3, <1>4, <1>5, <1>6, <1>7, <1>8, <1>9 DEF Next, Daemon, Reboot, PowerCut

(* What is installed is the accepted package, whole, unless a fault is silent. *)
THEOREM Staged == NoSilentFault /\ Spec => [](SortInv /\ StagedInv)
  <1> SUFFICES ASSUME NoSilentFault PROVE Spec => [](SortInv /\ StagedInv)
    OBVIOUS
  <1>1. SessionInv /\ (SortInv /\ StagedInv) /\ [Next]_vars => (SortInv /\ StagedInv)'
    BY SortKeeps, StagedKeeps
  <1> QED BY <1>1, SortInit, StagedInit, InStep, PTL DEF Spec

-----------------------------------------------------------------------------
(* Ota implements Update: what the daemon does to the files, step by step.  *)
Target == IF dpc \in {"extract", "install", "reboot"} THEN digest ELSE None

LEMMA PromiseInit == Init => Promise!Init
BY DEF Init, Promise!Init, Promise!None, None, Whole, Promise!Whole

(* A step that touches neither the files nor the accepted package. *)
LEMMA Stutters ==
    ASSUME disk' = disk, flash' = flash, Target' = Target, (dpc = "reboot") = (dpc' = "reboot")
    PROVE  UNCHANGED Promise!vars
BY DEF Promise!vars, Target

LEMMA StepPromised ==
    ASSUME NoSilentFault, SortInv, StagedInv, [Next]_vars
    PROVE  [Promise!Next]_Promise!vars
  <1> USE DEF Target
  <1>1. CASE (\E p \in Packages : HostStart(p)) \/ Host \/ Cut
    BY <1>1, Stutters DEF HostStart, Host, HostAcked, HostFails, HostAborts, HostClose, Cut, sessionVars
  <1>2. CASE Open \/ Begin \/ Chunk \/ Abort \/ LeaveLoop
    BY <1>2, Stutters DEF Open, Begin, Chunk, Abort, LeaveLoop, sessionVars, EndSession
  <1>3. CASE Verify
    <2>1. CASE dpc' = "closed"
      BY <1>3, <2>1, Stutters DEF Verify
    <2>2. CASE dpc' = "extract"
      <3>1. digest \in Packages /\ digest' = digest
        BY <1>3, <2>2 DEF Verify, EndSession, SortInv, Versions, sessionVars
      <3>2. Promise!Accept(digest)
        BY <1>3, <2>2, <3>1 DEF Verify, Promise!Accept
      <3> QED BY <3>1, <3>2 DEF Promise!Next
    <2> QED BY <1>3, <2>1, <2>2 DEF Verify, EndSession
  <1>4. CASE Unzip
    BY <1>4, Stutters DEF NoSilentFault, Unzip, sessionVars
  <1>5. ASSUME NEW f \in Files, Install(f) PROVE [Promise!Next]_Promise!vars
    <2>1. f \in FilesOf[digest] /\ disk' = [disk EXCEPT ![f] = Whole(digest)]
      BY <1>5, InstallPuts
    <2>2. digest \in Packages /\ digest # None
      BY <1>5, ConstantsAssumption DEF Install, StagedInv, None
    <2>3. Promise!Replace(f)
      BY <1>5, <2>1, <2>2 DEF Install, sessionVars, Promise!Replace, Promise!None, None, Whole, Promise!Whole
    <2> QED BY <2>3 DEF Promise!Next
  <1>6. CASE InstallFails
    <2>1. Promise!GiveUp
      BY <1>6 DEF InstallFails, EndSession, Promise!GiveUp, Promise!None, None
    <2> QED BY <2>1 DEF Promise!Next
  <1>7. CASE Finish
    <2>1. digest \in Packages /\ digest # None
      BY <1>7, ConstantsAssumption DEF Finish, StagedInv, None
    <2>2. \A f \in FilesOf[digest] : disk[f] = Whole(digest)
      BY <1>7 DEF Finish, StagedInv
    <2>3. Promise!Finish
      BY <1>7, <2>1, <2>2 DEF Finish, sessionVars, Promise!Finish, Promise!None, None, Whole, Promise!Whole
    <2> QED BY <2>3 DEF Promise!Next
  <1>8. CASE Down
    <2>1. Promise!Down
      BY <1>8 DEF Down, EndSession, Promise!Down, Promise!None, None
    <2> QED BY <2>1 DEF Promise!Next
  <1>9. ASSUME NEW f \in Files, WriteBack(f) PROVE [Promise!Next]_Promise!vars
    <2>1. Promise!WriteBack(f)
      BY <1>9 DEF WriteBack, sessionVars, Promise!WriteBack
    <2> QED BY <2>1 DEF Promise!Next
  <1>10. CASE UNCHANGED vars
    BY <1>10, Stutters DEF vars, sessionVars
  <1> QED BY <1>1, <1>2, <1>3, <1>4, <1>5, <1>6, <1>7, <1>8, <1>9, <1>10 DEF Next, Daemon, Reboot, PowerCut

(* Where unzip does not fail half way and a flush does not fail silently,   *)
(* files change only to the accepted package's, and the daemon restarts     *)
(* only into all of it, for any packages, faults of the other kinds and     *)
(* power cuts.                                                              *)
THEOREM PromiseKept == NoSilentFault /\ Spec => KeepsPromise
  <1> SUFFICES ASSUME NoSilentFault PROVE Spec => KeepsPromise
    OBVIOUS
  <1>1. (SortInv /\ StagedInv) /\ [Next]_vars => [Promise!Next]_Promise!vars
    BY StepPromised
  <1> QED BY <1>1, PromiseInit, Staged, PTL DEF Spec, KeepsPromise, Promise!Spec

=============================================================================
