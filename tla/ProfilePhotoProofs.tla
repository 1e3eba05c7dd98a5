------------------------- MODULE ProfilePhotoProofs -------------------------
(***************************************************************************)
(* The safety properties of ProfilePhoto, for any number of users, files   *)
(* and concurrent requests.                                                *)
(***************************************************************************)
EXTENDS ProfilePhoto, TLAPS

Uploading(r) == req[r].pc \in {"put", "drop", "update"}

\* The file of an upload is its own: drawn for its user, named by no row, and
\* nothing another request deletes or uploads.
NewApart ==
  \A r \in Reqs : Uploading(r) =>
    /\ owner[req[r].new] = req[r].user
    /\ \A u \in Users : rows[u] # req[r].new
    /\ \A q \in Reqs : /\ req[q].old # req[r].new
                       /\ q # r /\ Uploading(q) => req[q].new # req[r].new

\* It is on the CDN from the PUT to the UPDATE.
NewStored == \A r \in Reqs : req[r].pc \in {"drop", "update"} => req[r].new \in cdn

\* At the UPDATE the old file is gone, or its DELETE was refused.
OldGone == \A r \in Reqs : req[r].pc = "update" => req[r].old \notin cdn \ leaked

\* No row comes to name a file again that a removal took out of one.
Cleared == \A r \in Reqs, u \in Users : req[r].pc = "cleanup" => rows[u] # req[r].old

IInv ==
  /\ TypeOK /\ PicturesApart
  /\ NewApart /\ NewStored /\ OldGone /\ Cleared
  /\ PictureThere /\ LeaksExplained

-----------------------------------------------------------------------------
LEMMA InitInv == Init => IInv
<1> SUFFICES ASSUME Init PROVE IInv
  OBVIOUS
<1>1. TypeOK
  BY NilAssumption DEF Init, TypeOK, Pictures, Idle, Steps
<1>2. PicturesApart
  BY NilAssumption DEF Init, PicturesApart, Idle
<1>3. NewApart /\ NewStored /\ OldGone /\ Cleared
  BY DEF Init, NewApart, NewStored, OldGone, Cleared, Uploading, Idle
<1>4. \A f \in cdn : \E u \in Users : rows[u] = f
  BY DEF Init
<1>5. \A u \in Users : rows[u] # Nil => rows[u] \in cdn
  BY DEF Init
<1>6. PictureThere /\ LeaksExplained
  BY <1>4, <1>5 DEF PictureThere, LeaksExplained
<1> QED
  BY <1>1, <1>2, <1>3, <1>6 DEF IInv

LEMMA UploadKeeps ==
  ASSUME IInv, NEW r \in Reqs, NEW u \in Users, NEW f \in Files, Upload(r, u, f)
  PROVE  IInv'
<1> USE DEF IInv, Upload, Become, Goto, Idle, Uploading, Overwritten
<1>1. TypeOK'
  BY NilAssumption DEF TypeOK, Pictures, Steps
<1>2. PicturesApart'
  <2>1. PICK o \in {rows[u], Nil} :
          req' = [req EXCEPT ![r] = [pc |-> "put", user |-> u, old |-> o, new |-> f]]
    OBVIOUS
  <2>2. req'[r].old \in {rows[u], Nil} /\ req'[r].user = u
    BY <2>1 DEF TypeOK
  <2>3. \A q \in Reqs \ {r} : req'[q] = req[q]
    BY <2>1
  <2>4. \A g \in Files \ {f} : owner'[g] = owner[g]
    OBVIOUS
  <2>5. \A w \in Users : rows[w] # Nil => rows[w] \in Files \ {f}
    BY NilAssumption DEF TypeOK, Pictures, PicturesApart
  <2>6. \A q \in Reqs : req[q].old # Nil => req[q].old \in Files \ {f}
    <3>1. SUFFICES ASSUME NEW q \in Reqs, req[q].old # Nil PROVE req[q].old \in Files \ {f}
      OBVIOUS
    <3>2. CASE req[q].pc = "idle"
      BY <3>1, <3>2 DEF TypeOK
    <3>3. CASE req[q].pc # "idle"
      BY <3>1, <3>3, NilAssumption DEF TypeOK, Pictures, PicturesApart
    <3> QED
      BY <3>2, <3>3
  <2> QED
    BY <2>2, <2>3, <2>4, <2>5, <2>6 DEF PicturesApart
<1>3. NewApart'
  BY NilAssumption DEF TypeOK, NewApart, PicturesApart
<1>4. NewStored'
  BY NilAssumption DEF NewStored
<1>5. OldGone'
  BY NilAssumption DEF OldGone
<1>6. Cleared'
  BY NilAssumption DEF Cleared
<1>7. PictureThere'
  BY NilAssumption DEF PictureThere
<1>8. LeaksExplained'
  BY NilAssumption DEF LeaksExplained, InHand
<1> QED
  BY <1>1, <1>2, <1>3, <1>4, <1>5, <1>6, <1>7, <1>8

LEMMA PutKeeps ==
  ASSUME IInv, NEW r \in Reqs, Put(r)
  PROVE  IInv'
<1> USE DEF IInv, Put, Become, Goto, Idle, Uploading, Overwritten
<1>1. TypeOK'
  BY NilAssumption DEF TypeOK, Steps
<1>2. PicturesApart'
  BY NilAssumption DEF PicturesApart
<1>3. NewApart'
  BY NilAssumption DEF NewApart
<1>4. NewStored'
  BY NilAssumption DEF NewStored
<1>5. OldGone'
  BY NilAssumption DEF NewApart, OldGone
<1>6. Cleared'
  BY NilAssumption DEF Cleared
<1>7. PictureThere'
  BY NilAssumption DEF PictureThere
<1>8. LeaksExplained'
  BY NilAssumption DEF TypeOK, LeaksExplained, InHand
<1> QED
  BY <1>1, <1>2, <1>3, <1>4, <1>5, <1>6, <1>7, <1>8

LEMMA PutFailsKeeps ==
  ASSUME IInv, NEW r \in Reqs, PutFails(r)
  PROVE  IInv'
<1> USE DEF IInv, PutFails, Become, Goto, Idle, Uploading, Overwritten
<1>1. TypeOK'
  BY NilAssumption DEF TypeOK, Pictures, Steps
<1>2. PicturesApart'
  BY NilAssumption DEF PicturesApart
<1>3. NewApart'
  BY NilAssumption DEF TypeOK, NewApart
<1>4. NewStored'
  BY NilAssumption DEF NewStored
<1>5. OldGone'
  BY NilAssumption DEF OldGone
<1>6. Cleared'
  BY NilAssumption DEF Cleared
<1>7. PictureThere'
  BY NilAssumption DEF PictureThere
<1>8. LeaksExplained'
  BY NilAssumption DEF LeaksExplained, InHand
<1> QED
  BY <1>1, <1>2, <1>3, <1>4, <1>5, <1>6, <1>7, <1>8

LEMMA UploadPanicsKeeps ==
  ASSUME IInv, NEW r \in Reqs, UploadPanics(r)
  PROVE  IInv'
<1> USE DEF IInv, UploadPanics, Become, Goto, Idle, Uploading, Overwritten
<1>1. TypeOK'
  BY NilAssumption DEF TypeOK, Steps
<1>2. PicturesApart'
  BY NilAssumption DEF PicturesApart
<1>3. NewApart'
  BY NilAssumption DEF NewApart
<1>4. NewStored'
  BY NilAssumption DEF NewStored
<1>5. OldGone'
  BY NilAssumption DEF OldGone
<1>6. Cleared'
  BY NilAssumption DEF Cleared
<1>7. PictureThere'
  BY NilAssumption DEF PictureThere
<1>8. LeaksExplained'
  BY NilAssumption DEF LeaksExplained, InHand
<1> QED
  BY <1>1, <1>2, <1>3, <1>4, <1>5, <1>6, <1>7, <1>8

LEMMA DropKeeps ==
  ASSUME IInv, NEW r \in Reqs, Drop(r)
  PROVE  IInv'
<1> USE DEF IInv, Drop, Become, Goto, Idle, Uploading, Overwritten
<1>1. TypeOK'
  BY NilAssumption DEF TypeOK, Pictures, Steps
<1>2. PicturesApart'
  BY NilAssumption DEF PicturesApart
<1>3. NewApart'
  BY NilAssumption DEF NewApart
<1>4. NewStored'
  BY NilAssumption DEF NewApart, NewStored
<1>5. OldGone'
  BY NilAssumption DEF OldGone
<1>6. Cleared'
  BY NilAssumption DEF Cleared
<1>7. PictureThere'
  BY NilAssumption DEF TypeOK, PictureThere
<1>8. LeaksExplained'
  BY NilAssumption DEF LeaksExplained, InHand
<1> QED
  BY <1>1, <1>2, <1>3, <1>4, <1>5, <1>6, <1>7, <1>8

LEMMA DropRefusedKeeps ==
  ASSUME IInv, NEW r \in Reqs, DropRefused(r)
  PROVE  IInv'
<1> USE DEF IInv, DropRefused, Become, Goto, Idle, Uploading, Overwritten
<1>1. TypeOK'
  BY NilAssumption DEF TypeOK, Pictures, Steps
<1>2. PicturesApart'
  BY NilAssumption DEF PicturesApart
<1>3. NewApart'
  BY NilAssumption DEF NewApart
<1>4. NewStored'
  BY NilAssumption DEF NewStored
<1>5. OldGone'
  BY NilAssumption DEF OldGone
<1>6. Cleared'
  BY NilAssumption DEF Cleared
<1>7. PictureThere'
  BY NilAssumption DEF PictureThere
<1>8. LeaksExplained'
  BY NilAssumption DEF LeaksExplained, InHand
<1> QED
  BY <1>1, <1>2, <1>3, <1>4, <1>5, <1>6, <1>7, <1>8

LEMMA DropLostKeeps ==
  ASSUME IInv, NEW r \in Reqs, DropLost(r)
  PROVE  IInv'
<1> USE DEF IInv, DropLost, Become, Goto, Idle, Uploading, Overwritten
<1>1. TypeOK'
  BY NilAssumption DEF TypeOK, Pictures, Steps
<1>2. PicturesApart'
  BY NilAssumption DEF PicturesApart
<1>3. NewApart'
  BY NilAssumption DEF TypeOK, NewApart
<1>4. NewStored'
  BY NilAssumption DEF NewApart, NewStored
<1>5. OldGone'
  BY NilAssumption DEF OldGone
<1>6. Cleared'
  BY NilAssumption DEF Cleared
<1>7. PictureThere'
  BY NilAssumption DEF PictureThere
<1>8. LeaksExplained'
  BY NilAssumption DEF LeaksExplained, InHand
<1> QED
  BY <1>1, <1>2, <1>3, <1>4, <1>5, <1>6, <1>7, <1>8

LEMMA UpdateKeeps ==
  ASSUME IInv, NEW r \in Reqs, Update(r)
  PROVE  IInv'
<1> USE DEF IInv, Update, Become, Goto, Idle, Uploading, Overwritten
<1>1. TypeOK'
  BY NilAssumption DEF TypeOK, Pictures, Steps
<1>2. PicturesApart'
  BY NilAssumption DEF PicturesApart, NewApart
<1>3. NewApart'
  BY NilAssumption DEF TypeOK, NewApart
<1>4. NewStored'
  BY NilAssumption DEF NewStored
<1>5. OldGone'
  BY NilAssumption DEF OldGone
<1>6. Cleared'
  BY NilAssumption DEF NewApart, Cleared
<1>7. PictureThere'
  BY NilAssumption DEF TypeOK, PictureThere, NewStored, PicturesApart
<1>8. LeaksExplained'
  BY NilAssumption DEF TypeOK, LeaksExplained, InHand, OldGone
<1> QED
  BY <1>1, <1>2, <1>3, <1>4, <1>5, <1>6, <1>7, <1>8

LEMMA UpdateFailsKeeps ==
  ASSUME IInv, NEW r \in Reqs, UpdateFails(r)
  PROVE  IInv'
<1> USE DEF IInv, UpdateFails, Become, Goto, Idle, Uploading, Overwritten
<1>1. TypeOK'
  BY NilAssumption DEF TypeOK, Pictures, Steps
<1>2. PicturesApart'
  BY NilAssumption DEF PicturesApart
<1>3. NewApart'
  BY NilAssumption DEF TypeOK, NewApart
<1>4. NewStored'
  BY NilAssumption DEF NewStored
<1>5. OldGone'
  BY NilAssumption DEF OldGone
<1>6. Cleared'
  BY NilAssumption DEF Cleared
<1>7. PictureThere'
  BY NilAssumption DEF PictureThere
<1>8. LeaksExplained'
  BY NilAssumption DEF LeaksExplained, InHand
<1> QED
  BY <1>1, <1>2, <1>3, <1>4, <1>5, <1>6, <1>7, <1>8

LEMMA RemoveKeeps ==
  ASSUME IInv, NEW r \in Reqs, NEW u \in Users, Remove(r, u)
  PROVE  IInv'
<1> USE DEF IInv, Remove, Become, Goto, Idle, Uploading, Overwritten
<1>1. TypeOK'
  BY NilAssumption DEF TypeOK, Pictures, Steps
<1>2. PicturesApart'
  BY NilAssumption DEF PicturesApart
<1>3. NewApart'
  BY NilAssumption DEF NewApart
<1>4. NewStored'
  BY NilAssumption DEF NewStored
<1>5. OldGone'
  BY NilAssumption DEF OldGone
<1>6. Cleared'
  BY NilAssumption DEF Cleared
<1>7. PictureThere'
  BY NilAssumption DEF PictureThere
<1>8. LeaksExplained'
  BY NilAssumption DEF LeaksExplained, InHand
<1> QED
  BY <1>1, <1>2, <1>3, <1>4, <1>5, <1>6, <1>7, <1>8

LEMMA ClearKeeps ==
  ASSUME IInv, NEW r \in Reqs, Clear(r)
  PROVE  IInv'
<1> USE DEF IInv, Clear, Become, Goto, Idle, Uploading, Overwritten
<1>1. TypeOK'
  BY NilAssumption DEF TypeOK, Pictures, Steps
<1>2. PicturesApart'
  BY NilAssumption DEF PicturesApart
<1>3. NewApart'
  BY NilAssumption DEF TypeOK, NewApart
<1>4. NewStored'
  BY NilAssumption DEF NewStored
<1>5. OldGone'
  BY NilAssumption DEF OldGone
<1>6. Cleared'
  BY NilAssumption DEF TypeOK, Cleared, PicturesApart
<1>7. PictureThere'
  BY NilAssumption DEF PictureThere
<1>8. LeaksExplained'
  BY NilAssumption DEF TypeOK, LeaksExplained, InHand
<1> QED
  BY <1>1, <1>2, <1>3, <1>4, <1>5, <1>6, <1>7, <1>8

LEMMA ClearFailsKeeps ==
  ASSUME IInv, NEW r \in Reqs, ClearFails(r)
  PROVE  IInv'
<1> USE DEF IInv, ClearFails, Become, Goto, Idle, Uploading, Overwritten
<1>1. TypeOK'
  BY NilAssumption DEF TypeOK, Pictures, Steps
<1>2. PicturesApart'
  BY NilAssumption DEF TypeOK, PicturesApart
<1>3. NewApart'
  BY NilAssumption DEF TypeOK, NewApart
<1>4. NewStored'
  BY NilAssumption DEF NewStored
<1>5. OldGone'
  BY NilAssumption DEF OldGone
<1>6. Cleared'
  BY NilAssumption DEF TypeOK, Cleared
<1>7. PictureThere'
  BY NilAssumption DEF TypeOK, PictureThere
<1>8. LeaksExplained'
  BY NilAssumption DEF TypeOK, LeaksExplained, InHand
<1> QED
  BY <1>1, <1>2, <1>3, <1>4, <1>5, <1>6, <1>7, <1>8

LEMMA CleanupKeeps ==
  ASSUME IInv, NEW r \in Reqs, Cleanup(r)
  PROVE  IInv'
<1> USE DEF IInv, Cleanup, Become, Goto, Idle, Uploading, Overwritten
<1>1. TypeOK'
  BY NilAssumption DEF TypeOK, Pictures, Steps
<1>2. PicturesApart'
  BY NilAssumption DEF PicturesApart
<1>3. NewApart'
  BY NilAssumption DEF TypeOK, NewApart
<1>4. NewStored'
  BY NilAssumption DEF NewApart, NewStored
<1>5. OldGone'
  BY NilAssumption DEF OldGone
<1>6. Cleared'
  BY NilAssumption DEF Cleared
<1>7. PictureThere'
  BY NilAssumption DEF PictureThere, Cleared
<1>8. LeaksExplained'
  BY NilAssumption DEF LeaksExplained, InHand
<1> QED
  BY <1>1, <1>2, <1>3, <1>4, <1>5, <1>6, <1>7, <1>8

LEMMA CleanupRefusedKeeps ==
  ASSUME IInv, NEW r \in Reqs, CleanupRefused(r)
  PROVE  IInv'
<1> USE DEF IInv, CleanupRefused, Become, Goto, Idle, Uploading, Overwritten
<1>1. TypeOK'
  BY NilAssumption DEF TypeOK, Pictures, Steps
<1>2. PicturesApart'
  BY NilAssumption DEF PicturesApart
<1>3. NewApart'
  BY NilAssumption DEF TypeOK, NewApart
<1>4. NewStored'
  BY NilAssumption DEF NewStored
<1>5. OldGone'
  BY NilAssumption DEF OldGone
<1>6. Cleared'
  BY NilAssumption DEF Cleared
<1>7. PictureThere'
  BY NilAssumption DEF PictureThere
<1>8. LeaksExplained'
  BY NilAssumption DEF LeaksExplained, InHand
<1> QED
  BY <1>1, <1>2, <1>3, <1>4, <1>5, <1>6, <1>7, <1>8

LEMMA CleanupPanicsKeeps ==
  ASSUME IInv, NEW r \in Reqs, CleanupPanics(r)
  PROVE  IInv'
<1> USE DEF IInv, CleanupPanics, Become, Goto, Idle, Uploading, Overwritten
<1>1. TypeOK'
  BY NilAssumption DEF TypeOK, Pictures, Steps
<1>2. PicturesApart'
  BY NilAssumption DEF PicturesApart
<1>3. NewApart'
  BY NilAssumption DEF TypeOK, NewApart
<1>4. NewStored'
  BY NilAssumption DEF NewApart, NewStored
<1>5. OldGone'
  BY NilAssumption DEF OldGone
<1>6. Cleared'
  BY NilAssumption DEF Cleared
<1>7. PictureThere'
  BY NilAssumption DEF PictureThere, Cleared
<1>8. LeaksExplained'
  BY NilAssumption DEF LeaksExplained, InHand
<1> QED
  BY <1>1, <1>2, <1>3, <1>4, <1>5, <1>6, <1>7, <1>8

-----------------------------------------------------------------------------
LEMMA InductiveStep == IInv /\ [Next]_vars => IInv'
<1> SUFFICES ASSUME IInv, [Next]_vars PROVE IInv'
  OBVIOUS
<1>1. CASE Restart
  BY <1>1 DEF Restart, IInv, TypeOK, PicturesApart, NewApart, NewStored, OldGone, Cleared,
              PictureThere, LeaksExplained, InHand, Uploading
<1>2. ASSUME NEW r \in Reqs, UploadStep(r) PROVE IInv'
  BY <1>2, UploadKeeps, PutKeeps, PutFailsKeeps, UploadPanicsKeeps, DropKeeps,
     DropRefusedKeeps, DropLostKeeps, UpdateKeeps, UpdateFailsKeeps DEF UploadStep
<1>3. ASSUME NEW r \in Reqs, RemoveStep(r) PROVE IInv'
  BY <1>3, RemoveKeeps, ClearKeeps, ClearFailsKeeps, CleanupKeeps, CleanupRefusedKeeps,
     CleanupPanicsKeeps DEF RemoveStep
<1>4. CASE UNCHANGED vars
  BY <1>4 DEF vars, IInv, TypeOK, PicturesApart, NewApart, NewStored, OldGone, Cleared,
              PictureThere, LeaksExplained, InHand, Uploading
<1> QED
  BY <1>1, <1>2, <1>3, <1>4 DEF Next

LEMMA Invariance == Spec => []IInv
<1>1. Init => IInv
  BY InitInv
<1>2. IInv /\ [Next]_vars => IInv'
  BY InductiveStep
<1> QED
  BY <1>1, <1>2, PTL DEF Spec

\* Rows and requests keep the shape that the handlers count on.
THEOREM TypeCorrect == Spec => []TypeOK
<1>1. IInv => TypeOK
  BY DEF IInv
<1> QED
  BY <1>1, Invariance, PTL

\* Whatever uploads and removals run at once, and wherever they are stopped, a
\* picture only goes missing through an upload that does not reach its UPDATE.
THEOREM PicturesStay == Spec => []PictureThere
<1>1. IInv => PictureThere
  BY DEF IInv
<1> QED
  BY <1>1, Invariance, PTL

\* No file is left on the CDN without a failure, a panic or a race as its cause.
THEOREM LeaksHaveCauses == Spec => []LeaksExplained
<1>1. IInv => LeaksExplained
  BY DEF IInv
<1> QED
  BY <1>1, Invariance, PTL

\* No request deletes another user's file, and no row names one.
THEOREM OwnPictures == Spec => []PicturesApart
<1>1. IInv => PicturesApart
  BY DEF IInv
<1> QED
  BY <1>1, Invariance, PTL

=============================================================================
