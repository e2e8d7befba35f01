------------------------------- MODULE Sharing -------------------------------
(***************************************************************************)
(* One shared knowledge base: the service that serves it (service/app.py,  *)
(* store.py, uploads.py), the owner's share and unshare tools              *)
(* (mcp_server/share_tools.py) and the owner's push rail                   *)
(* (pipeline/kb/push_catchup.py over opyt_core/push.py).                   *)
(*                                                                         *)
(* Uploads run on the service's event loop, everything else on its worker  *)
(* threads: an upload is interrupted at its awaits by other uploads and at *)
(* any statement by the other handlers.  A file is an inode: the names     *)
(* <owner>.db and <owner>.db.uploading lead to one each.  A token reaches  *)
(* one knowledge base, so there is only one here.  Of the read counters    *)
(* only their difference is kept, and of that whether it is 0; byte counts *)
(* and labels are left out.                                                *)
(***************************************************************************)
EXTENDS GatewayValues, Integers, FiniteSets

CONSTANTS
  Codes,         \* invites the owner may mint
  Files,         \* inodes for exports
  MaxStore,      \* bound: changes of the owner's store
  MaxUnshares,   \* bound: unshare calls
  MaxFails       \* bound: lost connections, given-up pushes and restarts

ASSUME SharingAssumption ==
  /\ {MaxStore, MaxUnshares, MaxFails} \subseteq Nat
  /\ None \notin Files

VARIABLES
  store,         \* the owner's store_position
  watermark,     \* push_watermark, or -1
  shared,        \* the owner has registered
  rail,          \* the push rail's pass
  sent,          \* grant_codes
  redeemed,      \* codes with redeemed_at set
  claimed,       \* redeem calls that hold their claim and have no token yet
  readers,       \* reader tokens bought with a code
  reading,       \* codes whose reader has a request under way
  demand,        \* reads_since_last_upload > 0
  uploaded,      \* last_published_at is set
  file,          \* what an inode holds and how far its upload is
  tmp, dest,     \* the inodes the two names lead to
  listed,        \* the peers row
  loop,          \* the upload the event loop is in the middle of, or None
  unpublishing,  \* how far the unpublish call is
  unshares, fails,
  wanted,        \* history: the owner has shared and not unshared since
  dead,          \* history: invites sent before an unshare
  crossed        \* history: an upload met another upload or an unpublish

ownerVars == <<store, watermark, shared, rail>>
tokenVars == <<sent, redeemed, claimed, readers>>
usageVars == <<reading, demand, uploaded>>
fileVars == <<file, tmp, dest, listed, loop>>
bounds == <<unshares, fails>>
shareHistory == <<wanted, dead, crossed>>
shareVars == <<ownerVars, tokenVars, usageVars, fileVars, unpublishing, bounds, shareHistory>>

\* receiving: bytes are missing.  whole: all written.  replaced, listed: inside
\* commit.  stored: recorded, the 200 sent.  failed: aborted, or an error.
FileStage == {"none", "receiving", "whole", "replaced", "listed", "stored", "failed"}
Rail == [stage : {"idle", "building", "uploading"},
         position : Nat, file : Files \cup {None}]
RailIdle == [stage |-> "idle", position |-> 0, file |-> None]

ShareInit ==
  /\ store = 0
  /\ watermark = -1
  /\ shared = FALSE
  /\ rail = RailIdle
  /\ sent = {}
  /\ redeemed = {}
  /\ claimed = [c \in Codes |-> 0]
  /\ readers = [c \in Codes |-> 0]
  /\ reading = {}
  /\ demand = FALSE
  /\ uploaded = FALSE
  /\ file = [f \in Files |-> [stage |-> "none", version |-> 0, whole |-> FALSE]]
  /\ tmp = None
  /\ dest = None
  /\ listed = FALSE
  /\ loop = None
  /\ unpublishing = "no"
  /\ unshares = 0
  /\ fails = 0
  /\ wanted = FALSE
  /\ dead = {}
  /\ crossed = FALSE

Uploading(f) == file[f].stage \in {"receiving", "whole", "replaced", "listed"}
SomeUpload == \E f \in Files : Uploading(f)
Fail == fails < MaxFails /\ fails' = fails + 1

-----------------------------------------------------------------------------
(* Invites and tokens. *)

\* share: register unless it was, mint a code, make the push rail due.
Share(c) ==
  /\ c \notin sent
  /\ shared' = TRUE
  /\ sent' = sent \cup {c}
  /\ wanted' = TRUE
  /\ UNCHANGED <<store, watermark, rail, redeemed, claimed, readers, usageVars,
                 fileVars, unpublishing, bounds, dead, crossed>>

\* redeem_grant's first transaction: the conditional UPDATE.
Redeem(c) ==
  /\ c \in sent \ redeemed
  /\ redeemed' = redeemed \cup {c}
  /\ claimed' = [claimed EXCEPT ![c] = @ + 1]
  /\ UNCHANGED <<ownerVars, sent, readers, usageVars, fileVars, unpublishing,
                 bounds, shareHistory>>

\* ... and its second, in mint_token.
Mint(c) ==
  /\ claimed[c] > 0
  /\ claimed' = [claimed EXCEPT ![c] = @ - 1]
  /\ readers' = [readers EXCEPT ![c] = @ + 1]
  /\ UNCHANGED <<ownerVars, sent, redeemed, usageVars, fileVars, unpublishing, bounds,
                 shareHistory>>

\* revoke: unshare with one reader.
Revoke(c) ==
  /\ readers[c] > 0
  /\ readers' = [readers EXCEPT ![c] = @ - 1]
  /\ UNCHANGED <<ownerVars, sent, redeemed, claimed, usageVars, fileVars,
                 unpublishing, bounds, shareHistory>>

\* A search, open or aggregate gets past _served: a token, and a file.
BeginRead(c) ==
  /\ readers[c] > 0
  /\ dest # None
  /\ c \notin reading
  /\ reading' = reading \cup {c}
  /\ UNCHANGED <<ownerVars, tokenVars, demand, uploaded, fileVars, unpublishing,
                 bounds, shareHistory>>

\* ... and is counted, whatever it found.
EndRead(c) ==
  /\ c \in reading
  /\ reading' = reading \ {c}
  /\ demand' = TRUE
  /\ UNCHANGED <<ownerVars, tokenVars, uploaded, fileVars, unpublishing, bounds, shareHistory>>

-----------------------------------------------------------------------------
(* Unpublish: four steps of one handler. *)

\* revoke_all_readers.
Cut ==
  /\ shared
  /\ unpublishing = "no"
  /\ unshares < MaxUnshares
  /\ unshares' = unshares + 1
  /\ readers' = [c \in Codes |-> 0]
  /\ unpublishing' = "cut"
  /\ wanted' = FALSE
  /\ dead' = dead \cup sent
  /\ crossed' = (crossed \/ SomeUpload)
  /\ UNCHANGED <<ownerVars, sent, redeemed, claimed, usageVars, fileVars, fails>>

\* uploads.remove: the peers row,
Delist ==
  /\ unpublishing = "cut"
  /\ unpublishing' = "delisted"
  /\ listed' = FALSE
  /\ UNCHANGED <<ownerVars, tokenVars, usageVars, file, tmp, dest, loop, bounds, shareHistory>>

\* then the file.
Unlink ==
  /\ unpublishing = "delisted"
  /\ unpublishing' = "removed"
  /\ dest' = None
  /\ UNCHANGED <<ownerVars, tokenVars, usageVars, file, tmp, listed, loop, bounds, shareHistory>>

\* clear_upload: no bytes, the date and the read count stay.
Clear ==
  /\ unpublishing = "removed"
  /\ unpublishing' = "no"
  /\ UNCHANGED <<ownerVars, tokenVars, usageVars, fileVars, bounds, shareHistory>>

-----------------------------------------------------------------------------
(* Upload. *)

Stage(f, stage) == file' = [file EXCEPT ![f].stage = stage]

\* The next chunk is the last.
Receive(f) ==
  /\ file[f].stage = "receiving"
  /\ loop = None
  /\ file' = [file EXCEPT ![f].stage = "whole", ![f].whole = TRUE]
  /\ UNCHANGED <<ownerVars, tokenVars, usageVars, tmp, dest, listed, loop,
                 unpublishing, bounds, shareHistory>>

\* The client is lost, or the body too large: close, unlink the name.
Abort(f) ==
  /\ file[f].stage = "receiving"
  /\ loop = None
  /\ Fail
  /\ Stage(f, "failed")
  /\ tmp' = None
  /\ UNCHANGED <<ownerVars, tokenVars, usageVars, dest, listed, loop,
                 unpublishing, unshares, shareHistory>>

\* Slip: commit whatever has come, a lost client's too.
Replace_Partial(f) ==
  /\ file[f].stage \in {"receiving", "whole"}
  /\ loop = None
  /\ IF tmp = None
     THEN Stage(f, "failed") /\ UNCHANGED <<tmp, dest, loop>>
     ELSE Stage(f, "replaced") /\ dest' = tmp /\ tmp' = None /\ loop' = f
  /\ UNCHANGED <<ownerVars, tokenVars, usageVars, listed, unpublishing, bounds, shareHistory>>

\* commit: os.replace moves whatever the name leads to, or finds nothing there.
Replace(f) ==
  /\ file[f].stage = "whole"
  /\ loop = None
  /\ IF tmp = None
     THEN Stage(f, "failed") /\ UNCHANGED <<tmp, dest, loop>>
     ELSE Stage(f, "replaced") /\ dest' = tmp /\ tmp' = None /\ loop' = f
  /\ UNCHANGED <<ownerVars, tokenVars, usageVars, listed, unpublishing, bounds, shareHistory>>

\* peers.add.
List(f) ==
  /\ file[f].stage = "replaced"
  /\ Stage(f, "listed")
  /\ listed' = TRUE
  /\ UNCHANGED <<ownerVars, tokenVars, usageVars, tmp, dest, loop, unpublishing,
                 bounds, shareHistory>>

\* record_upload: every read so far is consumed.
Record(f) ==
  /\ file[f].stage = "listed"
  /\ Stage(f, "stored")
  /\ demand' = FALSE
  /\ uploaded' = TRUE
  /\ loop' = None
  /\ UNCHANGED <<ownerVars, tokenVars, reading, tmp, dest, listed, unpublishing,
                 bounds, shareHistory>>

\* The service restarts: no request survives, every file and row does.
ServiceRestart ==
  /\ SomeUpload \/ unpublishing # "no" \/ reading # {} \/ \E c \in Codes : claimed[c] > 0
  /\ Fail
  /\ file' = [f \in Files |->
       IF Uploading(f) THEN [file[f] EXCEPT !.stage = "failed"] ELSE file[f]]
  /\ loop' = None
  /\ unpublishing' = "no"
  /\ reading' = {}
  /\ claimed' = [c \in Codes |-> 0]
  /\ UNCHANGED <<ownerVars, sent, redeemed, readers, demand, uploaded, tmp, dest,
                 listed, unshares, shareHistory>>

-----------------------------------------------------------------------------
(* The owner's push rail. *)

\* run_push_catchup's gate: never published, or read and changed.
Publishes == ~uploaded \/ (demand /\ watermark # store)

\* A pass: note the position, ask the service, decide.
Decide ==
  /\ rail.stage = "idle"
  /\ shared
  /\ Publishes
  /\ rail' = [stage |-> "building", position |-> store, file |-> None]
  /\ UNCHANGED <<store, watermark, shared, tokenVars, usageVars, fileVars,
                 unpublishing, bounds, shareHistory>>

\* Which of the free inodes the file system gives out does not matter.
FreeFiles == {f \in Files : ~Uploading(f) /\ f \notin {tmp, dest, rail.file}}
NewFile == IF FreeFiles = {} THEN None ELSE CHOOSE f \in FreeFiles : TRUE

\* build_export, then the upload reaches Receiver: a new inode under the name.
Upload(f) ==
  /\ rail.stage = "building"
  /\ f = NewFile
  /\ loop = None
  /\ rail' = [rail EXCEPT !.stage = "uploading", !.file = f]
  /\ file' = [file EXCEPT ![f] =
       [stage |-> "receiving", version |-> store, whole |-> FALSE]]
  /\ tmp' = f
  /\ crossed' = (crossed \/ SomeUpload \/ unpublishing # "no")
  /\ UNCHANGED <<store, watermark, shared, tokenVars, usageVars, dest, listed,
                 loop, unpublishing, bounds, wanted, dead>>

\* Slip: the position is the store's when the push has ended.
Published_LatePosition ==
  /\ rail.stage = "uploading"
  /\ file[rail.file].stage = "stored"
  /\ watermark' = store
  /\ rail' = RailIdle
  /\ UNCHANGED <<store, shared, tokenVars, usageVars, fileVars, unpublishing,
                 bounds, shareHistory>>

\* publish reports ok: write_watermark.
Published ==
  /\ rail.stage = "uploading"
  /\ file[rail.file].stage = "stored"
  /\ watermark' = rail.position
  /\ rail' = RailIdle
  /\ UNCHANGED <<store, shared, tokenVars, usageVars, fileVars, unpublishing,
                 bounds, shareHistory>>

\* publish reports an error.
Failed ==
  /\ rail.stage = "uploading"
  /\ file[rail.file].stage = "failed"
  /\ rail' = RailIdle
  /\ UNCHANGED <<store, watermark, shared, tokenVars, usageVars, fileVars,
                 unpublishing, bounds, shareHistory>>

\* The pass ends without an answer: refused, timed out or killed.
GiveUp ==
  /\ rail.stage # "idle"
  /\ Fail
  /\ rail' = RailIdle
  /\ UNCHANGED <<store, watermark, shared, tokenVars, usageVars, fileVars,
                 unpublishing, unshares, shareHistory>>

\* The owner's store takes something in.
Change ==
  /\ store < MaxStore
  /\ store' = store + 1
  /\ UNCHANGED <<watermark, shared, rail, tokenVars, usageVars, fileVars,
                 unpublishing, bounds, shareHistory>>

-----------------------------------------------------------------------------

UploadStep(f) == Receive(f) \/ Replace(f) \/ List(f) \/ Record(f)
UnpublishStep == Delist \/ Unlink \/ Clear
RailEnds == Published \/ Failed

ShareNext ==
  \/ \E c \in Codes :
       \/ Share(c) \/ Redeem(c) \/ Mint(c) \/ Revoke(c)
       \/ BeginRead(c) \/ EndRead(c)
  \/ \E f \in Files : UploadStep(f) \/ Abort(f) \/ Upload(f)
  \/ Cut \/ UnpublishStep \/ ServiceRestart
  \/ Decide \/ RailEnds \/ GiveUp \/ Change

\* The worker runs the rail again and again, a connection that is not lost
\* delivers, and a handler that runs comes to its end.
ShareFairness ==
  /\ WF_shareVars(Decide)
  /\ WF_shareVars(\E f \in Files : Upload(f))
  /\ WF_shareVars(RailEnds)
  /\ WF_shareVars(UnpublishStep)
  /\ \A f \in Files : WF_shareVars(UploadStep(f))

-----------------------------------------------------------------------------
(* Properties. *)

\* What is served is a whole export, whichever uploads were cut off, given up
\* or restarted over, as long as no two were under way at once (uploads: "a
\* partial upload is never served").
ServedWhole == dest # None /\ ~crossed => file[dest].whole

\* Reads of a copy the store has moved past are answered by a push.
DemandPushed ==
  LET Waits == dest # None /\ demand /\ file[dest].version < store
  IN  Waits /\ ~crossed ~> ~Waits \/ crossed

\* No invite sent before an unshare opens the knowledge base after it (unshare:
\* "Every invite already sent stops working").
InvitesDie == \A c \in dead : readers[c] = 0

=============================================================================
