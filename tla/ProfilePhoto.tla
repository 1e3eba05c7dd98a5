---------------------------- MODULE ProfilePhoto ----------------------------
(***************************************************************************)
(* Profile pictures: a file on the CDN, and its name in the account's row. *)
(* POST /upload/profile puts the new file, deletes the old one and then    *)
(* names the new one in the row; DELETE /remove/profile clears the row and *)
(* leaves the file to a goroutine of its own.  Postgres and the CDN are    *)
(* called one after the other, each call is a step and each may fail; a    *)
(* deployment may stop the process between two of them.  To be stopped and *)
(* to fail leave the same behind, so one action stands for both.           *)
(*                                                                         *)
(* What is in a file does not matter here: a handler that refuses it       *)
(* changes nothing.                                                        *)
(***************************************************************************)
EXTENDS Naturals

CONSTANTS
  Users,   \* accounts
  Files,   \* names of files: UUIDs, never drawn twice
  Reqs,    \* uploads and removals in flight at the same time
  Nil      \* NULL in a row, and no value

ASSUME NilAssumption == Nil \notin Users \cup Files

VARIABLES
  rows,    \* accounts.users: profilepicture
  cdn,     \* the files on the CDN
  req,     \* the uploads and removals in flight, with their locals
  up,      \* is the process running?
  owner,   \* history: the user each file was drawn for
  cut,     \* history: files deleted by an upload that did not change the row
  leaked   \* history: files nothing will delete, each for a known reason

vars == <<rows, cdn, req, up, owner, cut, leaked>>

\* An upload is about to "put", "drop" the old file or "update" the row; a
\* removal is about to "clear" the row or, in the background, to "cleanup".
Steps == {"idle", "put", "drop", "update", "clear", "cleanup"}

Idle == [pc |-> "idle", user |-> Nil, old |-> Nil, new |-> Nil]

Become(r, loc) == req' = [req EXCEPT ![r] = loc]
Goto(r, step) == req' = [req EXCEPT ![r].pc = step]

\* The row of a user stops to name a file other than f: nothing deletes it.
Overwritten(u, f) == {rows[u]} \ {f, Nil}

\* A row may name a picture of its own, stored by an earlier version.
Init ==
  /\ rows \in [Users -> Files \cup {Nil}]
  /\ \A u, w \in Users : rows[u] = rows[w] /\ rows[u] # Nil => u = w
  /\ cdn = {rows[u] : u \in Users} \ {Nil}
  /\ owner \in [Files -> Users \cup {Nil}]
  /\ \A f \in Files, u \in Users : owner[f] = u <=> rows[u] = f
  /\ req = [r \in Reqs |-> Idle]
  /\ up = TRUE /\ cut = {} /\ leaked = {}

-----------------------------------------------------------------------------
(* POST /upload/profile *)

\* Mutant: a file is named for what is in it, and two users upload the same.
UploadByContent(r, u, f) ==
  /\ up /\ req[r].pc = "idle"
  /\ Become(r, [pc |-> "put", user |-> u, old |-> rows[u], new |-> f])
  /\ owner' = [owner EXCEPT ![f] = u]
  /\ UNCHANGED <<rows, cdn, up, cut, leaked>>

\* The row is read and a name is drawn.  When the read fails the handler goes
\* on without a row, as it does with one that names no picture.
Upload(r, u, f) ==
  /\ up /\ req[r].pc = "idle" /\ owner[f] = Nil
  /\ \E o \in {rows[u], Nil} :
       Become(r, [pc |-> "put", user |-> u, old |-> o, new |-> f])
  /\ owner' = [owner EXCEPT ![f] = u]
  /\ UNCHANGED <<rows, cdn, up, cut, leaked>>

Put(r) ==
  /\ up /\ req[r].pc = "put"
  /\ cdn' = cdn \cup {req[r].new}
  /\ Goto(r, "drop")
  /\ UNCHANGED <<rows, up, owner, cut, leaked>>

\* No answer, or not 201: the file may be there all the same.
PutFails(r) ==
  /\ req[r].pc = "put"
  /\ \/ UNCHANGED <<cdn, leaked>>
     \/ cdn' = cdn \cup {req[r].new} /\ leaked' = leaked \cup {req[r].new}
  /\ Become(r, Idle)
  /\ UNCHANGED <<rows, up, owner, cut>>

\* The address of a field is never nil: the branch that is to spare a user
\* without a picture is always taken, and dereferences the picture.
UploadPanics(r) ==
  /\ req[r].pc = "drop" /\ req[r].old = Nil
  /\ leaked' = leaked \cup {req[r].new}
  /\ Become(r, Idle)
  /\ UNCHANGED <<rows, cdn, up, owner, cut>>

\* Mutant: the handler gives up on the upload when the old file stays.
DropRefusedEnds(r) ==
  /\ up /\ req[r].pc = "drop" /\ req[r].old # Nil
  /\ Become(r, Idle)
  /\ UNCHANGED <<rows, cdn, up, owner, cut, leaked>>

Drop(r) ==
  /\ up /\ req[r].pc = "drop" /\ req[r].old # Nil
  /\ cdn' = cdn \ {req[r].old}
  /\ Goto(r, "update")
  /\ UNCHANGED <<rows, up, owner, cut, leaked>>

\* An answer other than 200 is logged, and the upload goes on.
DropRefused(r) ==
  /\ up /\ req[r].pc = "drop" /\ req[r].old # Nil
  /\ leaked' = leaked \cup {req[r].old}
  /\ Goto(r, "update")
  /\ UNCHANGED <<rows, cdn, up, owner, cut>>

\* Without an answer the response is nil: its body panics, and gin recovers.
DropLost(r) ==
  /\ req[r].pc = "drop" /\ req[r].old # Nil
  /\ \/ UNCHANGED <<cdn, cut>>
     \/ cdn' = cdn \ {req[r].old} /\ cut' = cut \cup {req[r].old}
  /\ leaked' = leaked \cup {req[r].new}
  /\ Become(r, Idle)
  /\ UNCHANGED <<rows, up, owner>>

Update(r) ==
  LET l == req[r] IN
  /\ l.pc = "update"
  /\ rows' = [rows EXCEPT ![l.user] = l.new]
  /\ leaked' = leaked \cup Overwritten(l.user, l.old)
  /\ Become(r, Idle)
  /\ UNCHANGED <<cdn, up, owner, cut>>

\* 500, and 201 after it.  An UPDATE whose answer is lost is Update.
UpdateFails(r) ==
  /\ req[r].pc = "update"
  /\ leaked' = leaked \cup {req[r].new}
  /\ cut' = cut \cup {req[r].old}
  /\ Become(r, Idle)
  /\ UNCHANGED <<rows, cdn, up, owner>>

-----------------------------------------------------------------------------
(* DELETE /remove/profile *)

\* Mutant: a row without a picture is cleared like any other.
RemoveUnchecked(r, u) ==
  /\ up /\ req[r].pc = "idle"
  /\ Become(r, [pc |-> "clear", user |-> u, old |-> rows[u], new |-> Nil])
  /\ UNCHANGED <<rows, cdn, up, owner, cut, leaked>>

\* A row without a picture stops the handler before it changes anything.
Remove(r, u) ==
  /\ up /\ req[r].pc = "idle" /\ rows[u] # Nil
  /\ Become(r, [pc |-> "clear", user |-> u, old |-> rows[u], new |-> Nil])
  /\ UNCHANGED <<rows, cdn, up, owner, cut, leaked>>

\* Mutant: the error of the UPDATE is dropped.
ClearUnchecked(r) ==
  LET l == req[r] IN
  /\ up /\ l.pc = "clear"
  /\ rows' \in {rows, [rows EXCEPT ![l.user] = Nil]}
  /\ leaked' = leaked \cup Overwritten(l.user, l.old)
  /\ Goto(r, "cleanup")
  /\ UNCHANGED <<cdn, up, owner, cut>>

\* The row is cleared whatever it names by now, and the file it named when it
\* was read is left to the goroutine.
Clear(r) ==
  LET l == req[r] IN
  /\ up /\ l.pc = "clear"
  /\ rows' = [rows EXCEPT ![l.user] = Nil]
  /\ leaked' = leaked \cup Overwritten(l.user, l.old)
  /\ Goto(r, "cleanup")
  /\ UNCHANGED <<cdn, up, owner, cut>>

\* The request's own context ends with the client's connection: the UPDATE may
\* have been done by then.
ClearFails(r) ==
  LET l == req[r] IN
  /\ l.pc = "clear"
  /\ \/ UNCHANGED <<rows, leaked>>
     \/ /\ rows' = [rows EXCEPT ![l.user] = Nil]
        /\ leaked' = leaked \cup Overwritten(l.user, Nil)
  /\ Become(r, Idle)
  /\ UNCHANGED <<cdn, up, owner, cut>>

Cleanup(r) ==
  /\ up /\ req[r].pc = "cleanup"
  /\ cdn' = cdn \ {req[r].old}
  /\ Become(r, Idle)
  /\ UNCHANGED <<rows, up, owner, cut, leaked>>

\* An answer other than 200 is logged.
CleanupRefused(r) ==
  /\ req[r].pc = "cleanup"
  /\ leaked' = leaked \cup {req[r].old}
  /\ Become(r, Idle)
  /\ UNCHANGED <<rows, cdn, up, owner, cut>>

\* Without an answer within 30 seconds the response is nil.  Nothing recovers
\* a panic in a bare goroutine: it ends the process.
CleanupPanics(r) ==
  /\ req[r].pc = "cleanup"
  /\ cdn' \in {cdn, cdn \ {req[r].old}}
  /\ leaked' = leaked \cup {req[r].old}
  /\ Become(r, Idle)
  /\ up' = FALSE
  /\ UNCHANGED <<rows, owner, cut>>

\* The next deployment, once every request of the old process is gone.
Restart ==
  /\ ~up /\ \A r \in Reqs : req[r].pc = "idle"
  /\ up' = TRUE
  /\ UNCHANGED <<rows, cdn, req, owner, cut, leaked>>

-----------------------------------------------------------------------------
UploadStep(r) ==
  \/ \E u \in Users, f \in Files : Upload(r, u, f)
  \/ Put(r) \/ PutFails(r)
  \/ UploadPanics(r)
  \/ Drop(r) \/ DropRefused(r) \/ DropLost(r)
  \/ Update(r) \/ UpdateFails(r)

RemoveStep(r) ==
  \/ \E u \in Users : Remove(r, u)
  \/ Clear(r) \/ ClearFails(r)
  \/ Cleanup(r) \/ CleanupRefused(r) \/ CleanupPanics(r)

Next == Restart \/ \E r \in Reqs : UploadStep(r) \/ RemoveStep(r)

Spec == Init /\ [][Next]_vars

-----------------------------------------------------------------------------
(* Properties *)

Pictures == Files \cup {Nil}

\* Requests have the shape their step needs.
TypeOK ==
  /\ rows \in [Users -> Pictures]
  /\ cdn \subseteq Files /\ cut \subseteq Files /\ leaked \subseteq Files
  /\ up \in BOOLEAN
  /\ owner \in [Files -> Users \cup {Nil}]
  /\ req \in [Reqs -> [pc : Steps, user : Users \cup {Nil}, old : Pictures, new : Pictures]]
  /\ \A r \in Reqs : LET l == req[r] IN
       /\ IF l.pc = "idle" THEN l = Idle ELSE l.user \in Users
       /\ l.pc \in {"put", "drop", "update"} => l.new \in Files
       /\ l.pc \in {"update", "clear", "cleanup"} => l.old \in Files

\* A picture a row names is on the CDN, unless an upload deleted it: one that is
\* about to change the row, or one that was stopped or failed before it could.
\* Uploads and removals of one user may run at the same time.
PictureThere ==
  \A u \in Users : rows[u] # Nil /\ rows[u] \notin cdn =>
    \/ rows[u] \in cut
    \/ \E r \in Reqs : req[r].pc = "update" /\ req[r].old = rows[u]

\* A request that is going to do something about file f.
InHand(f) ==
  \E r \in Reqs :
    \/ req[r].pc \in {"drop", "update"} /\ req[r].new = f
    \/ req[r].pc = "cleanup" /\ req[r].old = f

\* A file on the CDN that no row names is in the hands of a request, or was
\* left behind by a failure, by a panic, or by two requests of one user that
\* changed the row in turn.
LeaksExplained ==
  \A f \in cdn : f \in leaked \/ InHand(f) \/ \E u \in Users : rows[u] = f

\* Rows of different users never name the same file, whoever uploads when, and
\* what a request deletes was drawn for its own user.
PicturesApart ==
  /\ \A u \in Users : rows[u] # Nil => owner[rows[u]] = u
  /\ \A r \in Reqs : req[r].old # Nil => owner[req[r].old] = req[r].user

=============================================================================
