------------------------------- MODULE UQueue -------------------------------
(***************************************************************************)
(* The event queue of libuqueue as this program uses it (external): one    *)
(* registration per (filter, ident), each with at most one pending value.  *)
(* A trigger overwrites the pending value, flags included, since QNOTE_FFOR *)
(* takes the flags of the registration, which are 0; a trigger without a   *)
(* registration fails with ENOENT, and no caller looks.                    *)
(***************************************************************************)
EXTENDS Integers, SequencesExt

VARIABLES note,   \* note[k]: what is pending for the registration k
          ready   \* the registrations with something pending, oldest first

uqvars == <<note, ready>>

NoNote == <<>>

UQInit == note = <<>> /\ ready = <<>>

Registered(k) == k \in DOMAIN note

\* UQ_ADD; EEXIST changes nothing.
UQAdd(k) == /\ note' = IF Registered(k) THEN note
                       ELSE [x \in DOMAIN note \cup {k} |->
                                IF x = k THEN NoNote ELSE note[x]]
            /\ UNCHANGED ready

\* UQ_DELETE takes what is pending with it; ENOENT changes nothing.
UQDelete(k) == /\ note' = [x \in DOMAIN note \ {k} |-> note[x]]
               /\ \/ \E j \in DOMAIN ready : ready[j] = k /\ ready' = RemoveAt(ready, j)
                  \/ (\A j \in DOMAIN ready : ready[j] # k) /\ UNCHANGED ready

UQTrigger(k, v) ==
    IF Registered(k)
    THEN /\ note' = [note EXCEPT ![k] = v]
         /\ ready' = IF note[k] = NoNote THEN Append(ready, k) ELSE ready
    ELSE UNCHANGED uqvars

\* close(uq)
UQClose == note' = <<>> /\ ready' = <<>>

\* uevent() returns the oldest pending event, <<Head(ready), note[Head(ready)]>>.
UQPop == /\ ready # <<>>
         /\ note' = [note EXCEPT ![Head(ready)] = NoNote]
         /\ ready' = Tail(ready)
=============================================================================
