--------------------------- MODULE SandboxedStorage --------------------------
(***************************************************************************)
(* What manual modifications promise to the executor of a contract: a tree *)
(* of files, a copy of it for one batch of calls, and a copy of that for   *)
(* the call that runs.  A call writes to its own copy only; the end of the *)
(* call and the end of the batch take over a copy as a whole, or drop it.  *)
(***************************************************************************)

CONSTANTS Contents, \* all assignments of file contents to names
          None      \* there is no such copy

VARIABLES
    committed,  \* the tree of the drive
    batch,      \* the copy of the batch, None if there is no batch
    call        \* the copy of the call, None if no call runs

vars == <<committed, batch, call>>

TypeOK == /\ committed \in Contents
          /\ batch \in Contents \cup {None}
          /\ call \in Contents \cup {None}

Init == committed \in Contents /\ batch = None /\ call = None

BeginBatch == /\ batch = None /\ call = None
              /\ batch' = committed
              /\ UNCHANGED <<committed, call>>

BeginCall == /\ batch # None /\ call = None
             /\ call' = batch
             /\ UNCHANGED <<committed, batch>>

\* The call creates, writes, moves or removes a file of its copy.
Modify == /\ call # None
          /\ call' \in Contents
          /\ UNCHANGED <<committed, batch>>

EndCall == /\ call # None
           /\ batch' \in {call, batch}
           /\ call' = None
           /\ UNCHANGED committed

Commit == /\ batch # None /\ call = None
          /\ committed' = batch
          /\ batch' = None
          /\ UNCHANGED call

\* The task is interrupted or the batch is not wanted.
Abort == /\ batch # None
         /\ batch' = None /\ call' = None
         /\ UNCHANGED committed

Next == BeginBatch \/ BeginCall \/ Modify \/ EndCall \/ Commit \/ Abort

Spec == Init /\ [][Next]_vars

==============================================================================
