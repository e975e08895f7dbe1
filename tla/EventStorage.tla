----------------------------- MODULE EventStorage -----------------------------
(***************************************************************************)
(* EventStorage::reserve (media/EventStorage.h) as the recorder thread     *)
(* calls it (EventRecorder.h): before an event is opened, and once a       *)
(* second while it is written, in which it grows by SecondBytes at most.   *)
(* Events are numbered in the order of their files' times.  Sizes          *)
(* are in units of the 4096 bytes the recorder sets aside for a manifest.  *)
(* How much space the file system has left is a free choice wherever it is *)
(* asked; any call of the file system may throw; the agent may crash.      *)
(***************************************************************************)
EXTENDS Integers, FiniteSetsExt

CONSTANTS
  Limit, MaxFiles,   \* limits_.bytes and limits_.files
  RingSizes,         \* sizes of the ring an event starts with
  PacketSizes,       \* sizes of a packet
  SecondBytes,       \* what is written within the second between two checks
  MaxEvents          \* bound: events ever opened

ASSUME StorageAssumption ==
  /\ Limit \in Nat /\ MaxFiles \in Nat /\ SecondBytes \in Nat /\ MaxEvents \in Nat
  /\ RingSizes \subseteq Nat \ {0} /\ PacketSizes \subseteq Nat \ {0}

VARIABLES
  files, bytes, manifest,   \* the directory: event files, their sizes and manifests
  last_event,               \* the newest event, or 0
  writing,                  \* the event whose file is open, or 0
  unsynced,                 \* bytes written to it since the last flush
  unchecked,                \* of these, the ones that no reserve() was asked for
  spc,                      \* where reserve() is
  request                   \* its arguments, and items, used, count; item is under way

storagevars == <<files, bytes, manifest, last_event, writing, unsynced, unchecked, spc, request>>

Events == 1..MaxEvents
NoRequest == [incoming |-> 0, opening |-> FALSE, items |-> {}, used |-> 0, count |-> 0, item |-> 0]

StorageTypeOK ==
  /\ files \subseteq Events /\ last_event \in 0..MaxEvents /\ writing \in {0} \cup files
  /\ bytes \in [Events -> Nat] /\ unsynced \in Nat /\ unchecked \in Nat
  /\ manifest \in [Events -> {"none", "kept", "complete"}]
  /\ spc \in {"return", "scan", "delete", "unlink"}
  /\ request \in [incoming : Nat, opening : BOOLEAN, items : SUBSET Events, used : Int,
                  count : Int, item : {0} \cup Events]

StorageInit ==
  /\ files = {} /\ bytes = [e \in Events |-> 0] /\ manifest = [e \in Events |-> "none"]
  /\ last_event = 0 /\ writing = 0 /\ unsynced = 0 /\ unchecked = 0
  /\ spc = "return" /\ request = NoRequest

\* The bytes of an event: its file and its manifest, whatever that says.
SizeOf(e) == bytes[e] + (IF manifest[e] = "none" THEN 0 ELSE 1)

-------------------------------------------------------------------------------
(* The recorder. *)

Directory == <<files, bytes, manifest>>
written == <<writing, unsynced, unchecked>>

\* An event is wanted: reserve(bytes + 4096, "", true).
ReserveToOpen(ring) ==
  /\ spc = "return" /\ writing = 0 /\ last_event < MaxEvents
  /\ spc' = "scan"
  /\ request' = [NoRequest EXCEPT !.incoming = ring + 1, !.opening = TRUE]
  /\ UNCHANGED <<Directory, last_event, written>>

\* (mutant) the file is not flushed before it is measured.
MReserveToWrite(packet) ==
  /\ spc = "return" /\ writing # 0
  /\ spc' = "scan"
  /\ request' = [NoRequest EXCEPT !.incoming = packet + 1]
  /\ UNCHANGED <<Directory, last_event, written>>

\* The check of each second: flush(), and reserve(size + 4096, path, false).
ReserveToWrite(packet) ==
  /\ spc = "return" /\ writing # 0
  /\ bytes' = [bytes EXCEPT ![writing] = @ + unsynced] /\ unsynced' = 0
  /\ spc' = "scan"
  /\ request' = [NoRequest EXCEPT !.incoming = packet + 1]
  /\ UNCHANGED <<files, manifest, last_event, writing, unchecked>>

\* A packet is written less than a second after the last check.
WritePacket(packet) ==
  /\ spc = "return" /\ writing # 0 /\ unchecked + packet <= SecondBytes
  /\ unsynced' = unsynced + packet /\ unchecked' = unchecked + packet
  /\ UNCHANGED <<Directory, last_event, writing, spc, request>>

\* finish(): the file and its manifest are written, which says "complete" for an
\* event that ended by itself, or may be missing or cut short.
CloseFile(says) ==
  /\ bytes' = [bytes EXCEPT ![writing] = @ + unsynced]
  /\ manifest' = [manifest EXCEPT ![writing] = says]
  /\ writing' = 0 /\ unsynced' = 0 /\ unchecked' = 0

FinishEvent ==
  /\ spc = "return" /\ writing # 0
  /\ \E says \in {"none", "kept", "complete"} : CloseFile(says)
  /\ UNCHANGED <<files, last_event, spc, request>>

\* The agent is gone and started again: of what was not flushed, some is in the file.
StorageCrash ==
  /\ spc # "return" \/ writing # 0
  /\ IF writing = 0 THEN bytes' = bytes
     ELSE \E n \in 0..unsynced : bytes' = [bytes EXCEPT ![writing] = @ + n]
  /\ writing' = 0 /\ unsynced' = 0 /\ unchecked' = 0
  /\ spc' = "return" /\ request' = NoRequest
  /\ UNCHANGED <<files, manifest, last_event>>

-------------------------------------------------------------------------------
(* reserve(). *)

\* The directory is read.
Scan ==
  /\ spc = "scan"
  /\ request' = [request EXCEPT
       !.items = files,
       !.used = MapThenSumSet(SizeOf, files),
       !.count = Cardinality(files) + (IF request.opening THEN 1 ELSE 0)]
  /\ spc' = "delete"
  /\ UNCHANGED <<Directory, last_event, written>>

\* enough(), but for the space left on the file system.
Fits ==
  /\ request.incoming <= Limit /\ request.used <= Limit - request.incoming
  /\ request.count <= MaxFiles

\* (mutant) a manifest is enough.
MRemovable(e) == manifest[e] # "none" /\ e # writing

Removable(e) == manifest[e] = "complete" /\ e # writing

Candidates == {e \in request.items : Removable(e)}

\* fs::remove of the oldest candidate's file ...
RemoveFile ==
  /\ spc = "delete" /\ Candidates # {}
  /\ LET e == Min(Candidates) IN
       /\ files' = files \ {e}
       /\ request' = [request EXCEPT !.items = @ \ {e}, !.item = e]
  /\ spc' = "unlink"
  /\ UNCHANGED <<bytes, manifest, last_event, written>>

\* ... and of its manifest.
RemoveManifest ==
  /\ spc = "unlink"
  /\ request' = [request EXCEPT !.used = @ - SizeOf(request.item), !.count = @ - 1, !.item = 0]
  /\ bytes' = [bytes EXCEPT ![request.item] = 0]
  /\ manifest' = [manifest EXCEPT ![request.item] = "none"]
  /\ spc' = "delete"
  /\ UNCHANGED <<files, last_event, written>>

\* true: the event is opened with the ring, unless that fails, or the packet written.
Accepted ==
  /\ spc = "delete" /\ Fits
  /\ IF request.opening
       THEN \/ /\ last_event' = last_event + 1 /\ writing' = last_event'
               /\ files' = files \cup {last_event'} /\ unsynced' = request.incoming - 1
            \/ UNCHANGED <<files, last_event, writing, unsynced>>
       ELSE unsynced' = unsynced + request.incoming - 1 /\ UNCHANGED <<files, last_event, writing>>
  /\ unchecked' = 0 /\ spc' = "return" /\ request' = NoRequest
  /\ UNCHANGED <<bytes, manifest>>

\* false, after every candidate or for want of space, or an exception on the way:
\* nothing is opened, and an open event is finished as incomplete.
Rejected ==
  /\ spc # "return"
  /\ IF writing = 0 THEN UNCHANGED <<bytes, manifest, written>>
     ELSE \E says \in {"none", "kept"} : CloseFile(says)
  /\ spc' = "return" /\ request' = NoRequest
  /\ UNCHANGED <<files, last_event>>

StorageNext ==
  \/ \E ring \in RingSizes : ReserveToOpen(ring)
  \/ \E packet \in PacketSizes : ReserveToWrite(packet) \/ WritePacket(packet)
  \/ FinishEvent \/ StorageCrash
  \/ Scan \/ RemoveFile \/ RemoveManifest \/ Accepted \/ Rejected

StorageSpec == StorageInit /\ [][StorageNext]_storagevars

-------------------------------------------------------------------------------
(* Properties. *)

\* The event files and their manifests keep to the budget, but for the second of
\* data between two checks, and to the number of files, although deletions fail,
\* events are interrupted and the agent crashes (docs/deployment.md:48).
QuotaKept ==
  /\ MapThenSumSet(SizeOf, files) + unsynced <= Limit + SecondBytes
  /\ Cardinality(files) <= MaxFiles

\* Only complete events are deleted, the oldest first: never the one being written
\* nor one that was interrupted (docs/deployment.md:48).
DeletesOldestComplete ==
  [][\A e \in files \ files' :
       /\ e # writing /\ manifest[e] = "complete"
       /\ \A f \in files' : f < e => manifest[f] # "complete"]_storagevars

\* What the recorder relies on: the quota holds, and only complete events, from the
\* oldest on, are given up for it.
StorageKept == []StorageTypeOK /\ []QuotaKept /\ DeletesOldestComplete
===============================================================================
