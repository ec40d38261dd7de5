------------------------------ MODULE FastApply ------------------------------
(***************************************************************************)
(* Changes the desktop writes to a file before the developer has reviewed  *)
(* them, and takes back (desktop-shell: fast-apply/fast-apply.service.ts,  *)
(* fastApplyProposal and resolveFastApplyAction of app/event-handlers.ts). *)
(*                                                                         *)
(* The module is about one file: changes of different files share nothing. *)
(* The application gives every change a session of its own, so a session   *)
(* has one snapshot, and acceptAll and revertAll do what acceptFile and    *)
(* revertFile do.  The panel lists the changes that are pending; it is     *)
(* drawn again after every action, but not while a write is under way.     *)
(* Whether a write that failed has changed the file is left open.          *)
(*                                                                         *)
(* A definition named "...Slip" is a mistake one could make in the         *)
(* definition below it; the specification uses none.                       *)
(***************************************************************************)
EXTENDS Naturals

CONSTANTS Changes,   \* the changes, each with content of its own
          Original,  \* what the file holds at first
          MaxReverts \* bound: reverts of one change under way at once

ASSUME RevertsAssumption == MaxReverts \in Nat

VARIABLES disk,      \* the file
          original,  \* the originalContent of each change
          applyPc,   \* how far its applyChange is
          review,    \* the status of its snapshot
          reverts,   \* its calls of revertFile, before and after their write
          last       \* history: the write that reached the file last

fileVars == <<disk, original, applyPc, review, reverts, last>>

Contents == Changes \cup {Original}
Writes == [by : Changes, kind : {"apply", "revert"}] \cup {Original}

FileTypeOK ==
  /\ disk \in Contents
  /\ original \in [Changes -> Contents]
  /\ applyPc \in [Changes -> {"new", "writing", "written", "done"}]
  /\ review \in [Changes -> {"none", "pending-review", "accepted", "reverted"}]
  /\ reverts \in [Changes -> [writing : 0 .. MaxReverts, written : 0 .. MaxReverts]]
  /\ last \in Writes

FileInit ==
  /\ disk = Original
  /\ original = [c \in Changes |-> Original]
  /\ applyPc = [c \in Changes |-> "new"]
  /\ review = [c \in Changes |-> "none"]
  /\ reverts = [c \in Changes |-> [writing |-> 0, written |-> 0]]
  /\ last = Original
-----------------------------------------------------------------------------
(* A write reaches the file, or fails halfway: then nobody is known to     *)
(* have written last.                                                      *)
Lands(c, kind, content) ==
  disk' = content /\ last' = [by |-> c, kind |-> kind]

Fails(content) ==
  \/ disk' = content /\ last' = Original
  \/ UNCHANGED <<disk, last>>

(* applyChange: the original is read, ...                                  *)
Read(c) ==
  /\ applyPc[c] = "new"
  /\ original' = [original EXCEPT ![c] = disk]
  /\ applyPc' = [applyPc EXCEPT ![c] = "writing"]
  /\ UNCHANGED <<disk, review, reverts, last>>

(* ... the new content written, by which time another change may have been *)
(* written, ...                                                            *)
Write(c) ==
  /\ applyPc[c] = "writing"
  /\ \/ Lands(c, "apply", c) /\ applyPc' = [applyPc EXCEPT ![c] = "written"]
     \/ Fails(c) /\ applyPc' = [applyPc EXCEPT ![c] = "done"]
  /\ UNCHANGED <<original, review, reverts>>

(* ... and the session registered.                                         *)
Register(c) ==
  /\ applyPc[c] = "written"
  /\ applyPc' = [applyPc EXCEPT ![c] = "done"]
  /\ review' = [review EXCEPT ![c] = "pending-review"]
  /\ UNCHANGED <<disk, original, reverts, last>>
-----------------------------------------------------------------------------
Listed(c) == review[c] = "pending-review"

(* resolveFile.                                                            *)
ResolvedSlip(c, s) == IF Listed(c) THEN [review EXCEPT ![c] = s] ELSE review
Resolved(c, s) == [review EXCEPT ![c] = s]

Accept(c) ==
  /\ Listed(c)
  /\ review' = Resolved(c, "accepted")
  /\ UNCHANGED <<disk, original, applyPc, reverts, last>>

(* revertFile: the original is written; the change is pending meanwhile    *)
(* and may be accepted, or reverted once more.                             *)
Revert(c) ==
  /\ Listed(c) /\ reverts[c].writing + reverts[c].written < MaxReverts
  /\ reverts' = [reverts EXCEPT ![c].writing = @ + 1]
  /\ UNCHANGED <<disk, original, applyPc, review, last>>

Restore(c) ==
  /\ reverts[c].writing > 0
  /\ \/ /\ Lands(c, "revert", original[c])
        /\ reverts' = [reverts EXCEPT ![c].writing = @ - 1, ![c].written = @ + 1]
     \/ /\ Fails(original[c])
        /\ reverts' = [reverts EXCEPT ![c].writing = @ - 1]
  /\ UNCHANGED <<original, applyPc, review>>

Settle(c) ==
  /\ reverts[c].written > 0
  /\ reverts' = [reverts EXCEPT ![c].written = @ - 1]
  /\ review' = Resolved(c, "reverted")
  /\ UNCHANGED <<disk, original, applyPc, last>>
-----------------------------------------------------------------------------
AtRest(c) == applyPc[c] = "done" /\ reverts[c] = [writing |-> 0, written |-> 0]

Reviewed == \A c \in Changes : AtRest(c) /\ ~Listed(c)

FileNext ==
  \E c \in Changes :
    \/ Read(c) \/ Write(c) \/ Register(c)
    \/ Accept(c) \/ Revert(c) \/ Restore(c) \/ Settle(c)

FileSpec == FileInit /\ [][FileNext]_fileVars
-----------------------------------------------------------------------------
(* Properties.                                                             *)

(* Once nothing of a change is under way, and a write of its own reached   *)
(* the file last, the file holds what its status says: the original if it  *)
(* was reverted, else the change; also when the developer accepted it      *)
(* while it was being reverted, or reverted it twice. (revertFile)         *)
ReviewMatchesDisk ==
  \A c \in Changes :
    AtRest(c) /\ last # Original /\ last.by = c =>
      disk = IF review[c] = "reverted" THEN original[c] ELSE c
-----------------------------------------------------------------------------
(* Why it holds.                                                           *)

NotYetListed ==
  \A c \in Changes : applyPc[c] # "done" =>
    review[c] = "none" /\ reverts[c] = [writing |-> 0, written |-> 0]

RevertsAreBounded ==
  \A c \in Changes : reverts[c].writing + reverts[c].written <= MaxReverts

LastIsOnDisk ==
  \A c \in Changes : last # Original /\ last.by = c =>
    /\ applyPc[c] \in {"written", "done"}
    /\ IF last.kind = "apply"
       THEN disk = c /\ review[c] # "reverted" /\ reverts[c].written = 0
       ELSE disk = original[c] /\ (reverts[c].written > 0 \/ review[c] = "reverted")

(* The inductive invariant.                                                *)
FileIndInv == FileTypeOK /\ NotYetListed /\ RevertsAreBounded /\ LastIsOnDisk
=============================================================================
