--------------------------------- MODULE Avatars --------------------------------
(***************************************************************************)
(* The avatar of one account. Its file always has the same name with the   *)
(* image host, user_<id>: an upload overwrites it, then commits the row;   *)
(* a deletion destroys it, then commits the row. The row's version makes   *)
(* the commit of whoever comes second fail, but the file is shared.        *)
(***************************************************************************)
EXTENDS Handlers

CONSTANT MaxSaves     \* bound on the versions of the row

ASSUME AvatarBounds == MaxSaves \in Nat \ {0}

VARIABLES
  avatar,       \* the row: whether it shows an avatar, and its version
  hosted,       \* the host has the file
  avreq,        \* what each handler is at
  stripped      \* a deletion destroyed the file and could not commit

avatarVars == <<avatar, hosted, avreq, stripped>>

Picture(shown, version) == [shown |-> shown, version |-> version]
AvatarAt(pc, row) == [pc |-> pc, row |-> row]
AvatarIdle == AvatarAt("idle", Picture(FALSE, 0))

AvatarInit ==
  /\ avatar = Picture(FALSE, 1) /\ hosted = FALSE
  /\ avreq = [w \in Workers |-> AvatarIdle]
  /\ stripped = FALSE

AvatarGoto(w, r) == avreq' = [avreq EXCEPT ![w] = r]

(* get_current_user loads the row; what is uploaded is an image of a legal *)
(* type and size.                                                          *)
LoadUser(w, pc) ==
  /\ avreq[w] = AvatarIdle
  /\ AvatarGoto(w, AvatarAt(pc, avatar))
  /\ UNCHANGED <<avatar, hosted, stripped>>

(* Mutant: the old picture is destroyed before the new one is uploaded,    *)
(* which may fail.                                                         *)
ReplaceFile(w) ==
  /\ avreq[w].pc = "upload"
  /\ \/ hosted' = TRUE /\ AvatarGoto(w, [avreq[w] EXCEPT !.pc = "show"])
     \/ hosted' = FALSE /\ AvatarGoto(w, AvatarIdle)
  /\ UNCHANGED <<avatar, stripped>>

(* The host stores the file over the one it has, or fails: 502. *)
StoreFile(w) ==
  /\ avreq[w].pc = "upload"
  /\ \/ hosted' = TRUE /\ AvatarGoto(w, [avreq[w] EXCEPT !.pc = "show"])
     \/ UNCHANGED hosted /\ AvatarGoto(w, AvatarIdle)
  /\ UNCHANGED <<avatar, stripped>>

(* Only a row that showed an avatar has a file to destroy. *)
DestroyFile(w) ==
  /\ avreq[w].pc = "destroy"
  /\ \/ ~avreq[w].row.shown /\ UNCHANGED hosted /\ AvatarGoto(w, [avreq[w] EXCEPT !.pc = "clear"])
     \/ avreq[w].row.shown /\ hosted' = FALSE /\ AvatarGoto(w, [avreq[w] EXCEPT !.pc = "clear"])
     \/ avreq[w].row.shown /\ UNCHANGED hosted /\ AvatarGoto(w, AvatarIdle)
  /\ UNCHANGED <<avatar, stripped>>

Current(w) == avatar.version = avreq[w].row.version
Destroyed(w) == avreq[w].pc = "clear" /\ avreq[w].row.shown

(* Mutant: the row is written as it was loaded, whatever it is by now. *)
CommitBlindly(w) ==
  /\ avreq[w].pc \in {"show", "clear"} /\ avatar.version < MaxSaves
  /\ avatar' = Picture(avreq[w].pc = "show", avreq[w].row.version + 1)
  /\ AvatarGoto(w, AvatarIdle)
  /\ UNCHANGED <<hosted, stripped>>

(* The URL of an upload is always new; clearing what was clear is no       *)
(* change. A row that has moved on is a 409, and the file stays as it is.  *)
CommitAvatar(w) ==
  /\ avreq[w].pc \in {"show", "clear"} /\ avatar.version < MaxSaves
  /\ IF avreq[w].pc = "clear" /\ ~avreq[w].row.shown THEN UNCHANGED <<avatar, stripped>>
     ELSE IF Current(w)
       THEN /\ avatar' = Picture(avreq[w].pc = "show", avatar.version + 1)
            /\ UNCHANGED stripped
       ELSE UNCHANGED avatar /\ stripped' = (stripped \/ Destroyed(w))
  /\ AvatarGoto(w, AvatarIdle)
  /\ UNCHANGED hosted

(* Another request changes the account's row. *)
OtherSave ==
  /\ avatar.version < MaxSaves
  /\ avatar' = [avatar EXCEPT !.version = @ + 1]
  /\ UNCHANGED <<hosted, avreq, stripped>>

(* A lost connection or a dead process: nothing is committed. *)
AbortAvatar(w) ==
  /\ avreq[w].pc # "idle"
  /\ stripped' = (stripped \/ Destroyed(w))
  /\ AvatarGoto(w, AvatarIdle)
  /\ UNCHANGED <<avatar, hosted>>

AvatarNext ==
  \/ \E w \in Workers :
       \/ \E pc \in {"upload", "destroy"} : LoadUser(w, pc)
       \/ StoreFile(w) \/ DestroyFile(w) \/ CommitAvatar(w) \/ AbortAvatar(w)
  \/ OtherSave

AvatarSpec == AvatarInit /\ [][AvatarNext]_avatarVars

-----------------------------------------------------------------------------
AvatarTypeOK ==
  /\ avatar \in [shown : BOOLEAN, version : 1..MaxSaves]
  /\ {hosted, stripped} \subseteq BOOLEAN
  /\ \A w \in Workers : avreq[w].row.version <= avatar.version

(* The avatar an account shows is with the image host, unless a deletion   *)
(* is between destroying it and committing, or could not commit.           *)
ShownIsHosted ==
  avatar.shown => hosted \/ stripped \/ \E w \in Workers : Destroyed(w)

(* An upload, failed or not, never takes away the picture that is shown. *)
OnlyDeletionsDestroy ==
  [][hosted /\ ~hosted' => \E w \in Workers : avreq[w].pc = "destroy"]_avatarVars

(* All that is promised of avatars: the picture shown is there to show,    *)
(* but for a deletion that did not reach its commit, and an upload takes   *)
(* none away.                                                              *)
AvatarsCorrect ==
  /\ [](AvatarTypeOK /\ ShownIsHosted)
  /\ OnlyDeletionsDestroy

=============================================================================
