--------------------------------- MODULE Ota ---------------------------------
(***************************************************************************)
(* An over-the-air update: the uploader on the host                        *)
(* (tools/ota_usb_upload.py) and the daemon on the device                  *)
(* (services/otad.cpp), with the channel between them cut, packets damaged *)
(* in it, files that cannot be written and the power going at any time.    *)
(*                                                                         *)
(* A package is a number; its zip is Parts chunks.  A packet is intact,    *)
(* fails its checksum ("bad"), or passes it with a wrong payload.  A file  *)
(* on the disk is the package it came from and whether it is all there.    *)
(*                                                                         *)
(* AwaitForever, VerifyAcksFirst and FinishWithoutSync are mistakes this   *)
(* code could make; Next does not use them, the properties are tried       *)
(* against them.                                                           *)
(***************************************************************************)
EXTENDS Integers, Sequences

CONSTANTS
    Files,          \* files under /mfoes
    Packages,       \* packages the host may build, from 1
    FilesOf,        \* [Packages -> SUBSET Files]: build_zip leaves out what is missing
    Parts,          \* chunks of a zip
    Faults,         \* the failures of the device's file system that happen
    MaxSessions     \* bound: sessions the host starts

AllFaults == {"write",     \* a chunk is not written to the staging zip
              "unzip",     \* unzip fails, with some of the files extracted
              "copy",      \* copy_file or rename fails and says so
              "flush"}     \* the end of a copy is not written and copy_file says nothing

ASSUME ConstantsAssumption ==
    /\ Packages \subseteq Nat \ {0}
    /\ FilesOf \in [Packages -> SUBSET Files]
    /\ Parts \in Nat \ {0}
    /\ Faults \subseteq AllFaults
    /\ MaxSessions \in Nat

None == 0
Versions == Packages \cup {None}
Contents == [of : Versions, whole : BOOLEAN]
Whole(p) == [of |-> p, whole |-> TRUE]
Packets == [type : {"begin", "chunk", "end", "abort", "bad"}, pkg : Versions, part : 0 .. Parts, intact : BOOLEAN]
Replies == {"ack", "nak"}
Lost == << >>                                    \* a chunk fwrite did not store
Zip(p) == [i \in 1 .. Parts |-> <<p, i>>]        \* the file whose digest is the package's

VARIABLES
    hpc, pkg, part, sessions,       \* uploader: place, what it sends, sessions started
    link, up, down,                 \* the channel: open, packets and replies on their way
    dpc, digest, received, zip,     \* daemon: place, md5_full, received_parts, OTA_ZIP
    extract, todo,                  \* /tmp/ota_extract, files install_tree has not reached
    verified,                       \* the package last found complete in this session
    disk, flash                     \* the target files, and what of them survives a power cut

hostVars == <<hpc, pkg, part, sessions>>
sessionVars == <<digest, received, zip>>
applyVars == <<extract, todo>>
vars == <<hostVars, link, up, down, dpc, sessionVars, applyVars, verified, disk, flash>>

NoFiles == [f \in Files |-> None]

Init ==
    /\ hpc = "idle" /\ pkg = None /\ part = 0 /\ sessions = 0
    /\ link = FALSE /\ up = << >> /\ down = << >>
    /\ dpc = "closed" /\ digest = None /\ received = 0 /\ zip = << >>
    /\ extract = NoFiles /\ todo = {} /\ verified = None
    /\ disk = [f \in Files |-> Whole(None)]
    /\ flash = disk

-----------------------------------------------------------------------------
(* The uploader sends one packet at a time and waits for its answer. *)

Packet(t, p, n) == [type |-> t, pkg |-> p, part |-> n, intact |-> TRUE]

(* What becomes of a packet: intact, failing its checksum, or altered.  The *)
(* end and abort packets carry nothing that could be altered.               *)
Transmits(m) ==
    \E n \in {m, [m EXCEPT !.type = "bad"]} \cup
             (IF m.type \in {"begin", "chunk"} THEN {[m EXCEPT !.intact = FALSE]} ELSE {}) :
        up' = Append(up, n)

(* open_channel, then OTA_BEGIN. *)
HostStart(p) ==
    /\ hpc = "idle" /\ dpc = "ready" /\ ~link /\ up = << >>
    /\ sessions < MaxSessions
    /\ sessions' = sessions + 1
    /\ link' = TRUE
    /\ Transmits(Packet("begin", p, 0))
    /\ hpc' = "begin" /\ pkg' = p /\ part' = 0
    /\ UNCHANGED <<down, dpc, sessionVars, applyVars, verified, disk, flash>>

Awaiting == hpc \in {"begin", "chunk", "end"}
Acked == down # << >> /\ Head(down) = "ack"

(* expect_ack: the next chunk, OTA_END after the last one, or success.  The *)
(* part number in the acknowledgement is not looked at.                     *)
HostAcked ==
    /\ Awaiting /\ Acked
    /\ down' = Tail(down)
    /\ \/ /\ hpc \in {"begin", "chunk"} /\ part < Parts
          /\ hpc' = "chunk" /\ part' = part + 1
          /\ Transmits(Packet("chunk", pkg, part + 1))
       \/ /\ hpc = "chunk" /\ part = Parts
          /\ hpc' = "end"
          /\ Transmits(Packet("end", pkg, 0))
          /\ UNCHANGED part
       \/ /\ hpc = "end"
          /\ hpc' = "done"
          /\ UNCHANGED <<part, up>>
    /\ UNCHANGED <<pkg, sessions, link, dpc, sessionVars, applyVars, verified, disk, flash>>

AwaitForever ==
    /\ Awaiting
    /\ ~link \/ (down # << >> /\ Head(down) = "nak")
    /\ hpc' = "failed"
    /\ UNCHANGED <<pkg, part, sessions, link, up, down, dpc, sessionVars, applyVars, verified, disk, flash>>

(* OTA_NAK, a closed channel, or sixty seconds without an answer. *)
HostFails ==
    /\ Awaiting
    /\ ~Acked
    /\ hpc' = "failed"
    /\ UNCHANGED <<pkg, part, sessions, link, up, down, dpc, sessionVars, applyVars, verified, disk, flash>>

(* KeyboardInterrupt *)
HostAborts ==
    /\ Awaiting
    /\ IF link THEN Transmits(Packet("abort", pkg, 0)) ELSE UNCHANGED up
    /\ hpc' = "failed"
    /\ UNCHANGED <<pkg, part, sessions, link, down, dpc, sessionVars, applyVars, verified, disk, flash>>

(* The channel is closed; packets already sent may still arrive. *)
HostClose ==
    /\ hpc \in {"done", "failed"}
    /\ hpc' = "idle" /\ pkg' = None /\ part' = 0
    /\ link' = FALSE /\ down' = << >>
    /\ UNCHANGED <<sessions, up, dpc, sessionVars, applyVars, verified, disk, flash>>

Host == HostAcked \/ HostFails \/ HostAborts \/ HostClose

(* The cable is pulled or the multiplexer goes: what was on its way is lost. *)
Cut ==
    /\ link
    /\ link' = FALSE /\ up' = << >> /\ down' = << >>
    /\ UNCHANGED <<hostVars, dpc, sessionVars, applyVars, verified, disk, flash>>

-----------------------------------------------------------------------------
(* The daemon: one session at a time. *)

(* The channel of an earlier session has to be given up first. *)
Open ==
    /\ dpc = "closed" /\ ~link
    /\ dpc' = "ready" /\ up' = << >>
    /\ UNCHANGED <<hostVars, link, down, sessionVars, applyVars, verified, disk, flash>>

Reply(r) == down' = IF link THEN Append(down, r) ELSE down

(* The session ends: staging is removed and the channel closed. *)
EndSession == dpc' = "closed" /\ digest' = None /\ received' = 0 /\ zip' = << >>

(* OTA_BEGIN empties the staging directory.  An altered one announces a     *)
(* digest that no zip has.                                                  *)
Begin ==
    /\ dpc = "ready" /\ up # << >>
    /\ up' = Tail(up)
    /\ \/ /\ Head(up).type = "begin"
          /\ dpc' = "chunks"
          /\ digest' = IF Head(up).intact THEN Head(up).pkg ELSE None
          /\ received' = 0 /\ zip' = << >> /\ verified' = None
          /\ Reply("ack")
       \/ /\ EndSession                   \* another packet, or no staging directory
          /\ Reply("nak") \/ UNCHANGED down
          /\ UNCHANGED verified
    /\ UNCHANGED <<hostVars, link, applyVars, disk, flash>>

Chunk ==
    /\ dpc = "chunks" /\ up # << >> /\ Head(up).type = "chunk"
    /\ up' = Tail(up)
    /\ \/ /\ Head(up).intact
          /\ \E c \in {<<Head(up).pkg, Head(up).part>>} \cup (IF "write" \in Faults THEN {Lost} ELSE {}) :
                zip' = Append(zip, c)
          /\ received' = received + 1
          /\ Reply("ack")
          /\ UNCHANGED <<dpc, digest>>
       \/ /\ ~Head(up).intact
          /\ EndSession
          /\ Reply("nak")
    /\ UNCHANGED <<hostVars, link, applyVars, verified, disk, flash>>

Abort ==
    /\ dpc = "chunks" /\ up # << >> /\ Head(up).type = "abort"
    /\ up' = Tail(up)
    /\ EndSession
    /\ UNCHANGED <<hostVars, link, down, applyVars, verified, disk, flash>>

(* OTA_END leaves the loop, and so does a damaged packet or a lost channel. *)
LeaveLoop ==
    /\ dpc = "chunks"
    /\ \/ up # << >> /\ Head(up).type \in {"end", "bad"} /\ up' = Tail(up)
       \/ ~link /\ up' = << >>
    /\ dpc' = "verify"
    /\ UNCHANGED <<hostVars, link, down, sessionVars, applyVars, verified, disk, flash>>

VerifyAcksFirst ==
    /\ dpc = "verify"
    /\ Reply("ack")
    /\ \/ /\ received # Parts \/ digest = None \/ zip # Zip(digest)
          /\ EndSession
          /\ UNCHANGED verified
       \/ /\ received = Parts /\ digest # None /\ zip = Zip(digest)
          /\ dpc' = "extract" /\ verified' = digest
          /\ UNCHANGED sessionVars
    /\ UNCHANGED <<hostVars, link, up, applyVars, disk, flash>>

(* The count, then the digest; a wrong count is not answered.  Success is   *)
(* acknowledged before anything is installed.                               *)
Verify ==
    /\ dpc = "verify"
    /\ \/ /\ received # Parts
          /\ EndSession
          /\ UNCHANGED <<down, verified>>
       \/ /\ received = Parts /\ (digest = None \/ zip # Zip(digest))
          /\ EndSession
          /\ Reply("nak")
          /\ UNCHANGED verified
       \/ /\ received = Parts /\ digest # None /\ zip = Zip(digest)
          /\ dpc' = "extract" /\ verified' = digest
          /\ Reply("ack")
          /\ UNCHANGED sessionVars
    /\ UNCHANGED <<hostVars, link, up, applyVars, disk, flash>>

Extracted(done) == [f \in Files |-> IF f \in done THEN zip[1][1] ELSE extract[f]]

(* unzip -o: over what is there already.  When it fails that stays. *)
Unzip ==
    /\ dpc = "extract"
    /\ \/ /\ extract' = Extracted(FilesOf[zip[1][1]])
          /\ todo' = {f \in Files : extract'[f] # None}
          /\ dpc' = "install"
          /\ UNCHANGED sessionVars
       \/ /\ "unzip" \in Faults
          /\ \E some \in SUBSET FilesOf[zip[1][1]] : extract' = Extracted(some)
          /\ EndSession
          /\ UNCHANGED todo
    /\ UNCHANGED <<hostVars, link, up, down, verified, disk, flash>>

(* install_binary: copy beside the target, flush, rename over it. *)
Install(f) ==
    /\ dpc = "install" /\ f \in todo
    /\ \E c \in {Whole(extract[f])} \cup (IF "flush" \in Faults THEN {[of |-> extract[f], whole |-> FALSE]} ELSE {}) :
          disk' = [disk EXCEPT ![f] = c]
    /\ todo' = todo \ {f}
    /\ UNCHANGED <<hostVars, link, up, down, dpc, sessionVars, extract, verified, flash>>

(* One file fails: the ones before it stay installed. *)
InstallFails ==
    /\ dpc = "install" /\ todo # {} /\ "copy" \in Faults
    /\ extract' = NoFiles /\ todo' = {}
    /\ EndSession
    /\ UNCHANGED <<hostVars, link, up, down, verified, disk, flash>>

FinishWithoutSync ==
    /\ dpc = "install" /\ todo = {}
    /\ extract' = NoFiles
    /\ dpc' = "reboot"
    /\ UNCHANGED <<hostVars, link, up, down, sessionVars, todo, verified, disk, flash>>

(* sync, then the reboot. *)
Finish ==
    /\ dpc = "install" /\ todo = {}
    /\ extract' = NoFiles
    /\ flash' = disk
    /\ dpc' = "reboot"
    /\ UNCHANGED <<hostVars, link, up, down, sessionVars, todo, verified, disk>>

(* The kernel writes a renamed file back when it likes. *)
WriteBack(f) ==
    /\ flash[f] # disk[f]
    /\ flash' = [flash EXCEPT ![f] = disk[f]]
    /\ UNCHANGED <<hostVars, link, up, down, dpc, sessionVars, applyVars, verified, disk>>

(* The device goes down: /tmp, and what was not written back, are gone. *)
Down ==
    /\ disk' = flash
    /\ EndSession
    /\ extract' = NoFiles /\ todo' = {} /\ verified' = None
    /\ link' = FALSE /\ up' = << >> /\ down' = << >>
    /\ UNCHANGED <<hostVars, flash>>

Reboot == dpc = "reboot" /\ Down
PowerCut == Down

Daemon ==
    \/ Open
    \/ Begin
    \/ Chunk
    \/ Abort
    \/ LeaveLoop
    \/ Verify
    \/ Unzip
    \/ \E f \in Files : Install(f)
    \/ InstallFails
    \/ Finish
    \/ Reboot

-----------------------------------------------------------------------------
Next ==
    \/ \E p \in Packages : HostStart(p)
    \/ Host
    \/ Cut
    \/ Daemon
    \/ \E f \in Files : WriteBack(f)
    \/ PowerCut

(* A started uploader runs and its sixty seconds pass; a session of the     *)
(* daemon may hang on a channel nobody closes.                              *)
Spec == Init /\ [][Next]_vars
FairSpec == Spec /\ WF_vars(HostAcked \/ HostFails \/ HostClose)

-----------------------------------------------------------------------------
(* Properties *)

TypeOK ==
    /\ hpc \in {"idle", "begin", "chunk", "end", "done", "failed"}
    /\ pkg \in Versions /\ part \in 0 .. Parts /\ sessions \in 0 .. MaxSessions
    /\ link \in BOOLEAN
    /\ up \in Seq(Packets) /\ Len(up) <= 2 /\ down \in Seq(Replies) /\ Len(down) <= 2
    /\ dpc \in {"closed", "ready", "chunks", "verify", "extract", "install", "reboot"}
    /\ digest \in Versions /\ received \in 0 .. Parts
    /\ zip \in Seq((Packages \X (1 .. Parts)) \cup {Lost}) /\ Len(zip) = received
    /\ extract \in [Files -> Versions] /\ todo \subseteq Files
    /\ verified \in Versions
    /\ disk \in [Files -> Contents] /\ flash \in [Files -> Contents]

(* The uploader reports success only for the very package the daemon found  *)
(* complete: no damaged, cut or repeated answer is taken for OTA_END's.     *)
SuccessIsVerified == [][hpc # "done" /\ hpc' = "done" => verified = pkg]_vars

(* What an update promises (module Update): a file changes only to the      *)
(* accepted package's, and the daemon restarts only into all of it.         *)
Promise == INSTANCE Update WITH
    target <- IF dpc \in {"extract", "install", "reboot"} THEN digest ELSE None,
    restarting <- (dpc = "reboot")
KeepsPromise == Promise!Spec

(* The uploader always comes to an end, answered or not. *)
UploaderReturns == Awaiting ~> hpc = "idle"

(* otad.cpp:443-444: the uploader's list is "the single source of truth for *)
(* what ships".                                                             *)
SingleSource == [][\A f \in Files : dpc = "install" /\ disk'[f] # disk[f] /\ dpc' = "install" => f \in FilesOf[digest]]_vars

(* otad.cpp:397: copy_file is "byte-for-byte" and "returns false on any     *)
(* error", so that nothing but a whole file is renamed into place.          *)
FilesWhole == \A f \in Files : disk[f].whole

=============================================================================
