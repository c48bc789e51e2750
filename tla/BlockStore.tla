----------------------------- MODULE BlockStore -----------------------------
(***************************************************************************)
(* What the buffer cache promises (abstract): each disk block has one       *)
(* contents and at most one holder, and only the holder changes it.         *)
(***************************************************************************)
CONSTANTS BlockSet, Users, Contents, Nobody

VARIABLES content, holder

storeVars == <<content, holder>>

StoreInit == content \in [BlockSet -> Contents] /\ holder = [k \in BlockSet |-> Nobody]

Take(t, k) ==
    /\ holder[k] = Nobody
    /\ holder' = [holder EXCEPT ![k] = t]
    /\ UNCHANGED content

Store(t, k, v) ==
    /\ holder[k] = t
    /\ content' = [content EXCEPT ![k] = v]
    /\ UNCHANGED holder

Give(t, k) ==
    /\ holder[k] = t
    /\ holder' = [holder EXCEPT ![k] = Nobody]
    /\ UNCHANGED content

StoreNext ==
    \E t \in Users, k \in BlockSet :
        Take(t, k) \/ Give(t, k) \/ \E v \in Contents : Store(t, k, v)

StoreSpec == StoreInit /\ [][StoreNext]_storeVars
=============================================================================
