-------------------------------- MODULE MCBlobs --------------------------------
(***************************************************************************)
(* Small instances of Blobs.                                               *)
(***************************************************************************)
EXTENDS Blobs

NoEvents == [e \in Events |-> 0]

\* Restarts after failed steps and damaged bytes, deletions of the application
\* with retries, a suspension, or deletions of other applications, beside a
\* crash, a deletion or the failures of one reconciliation.
RequestBudgets ==
    {[NoEvents EXCEPT !["crash"] = 2, !["fault"] = 1, !["damage"] = 1],
     [NoEvents EXCEPT !["delete"] = 2, !["crash"] = 1, !["fault"] = 1],
     [NoEvents EXCEPT !["delete"] = 1, !["status"] = 2],
     [NoEvents EXCEPT !["purge"] = 2],
     [NoEvents EXCEPT !["purge"] = 1, !["crash"] = 1, !["fault"] = 1],
     [NoEvents EXCEPT !["purge"] = 1, !["delete"] = 1, !["fault"] = 1],
     [NoEvents EXCEPT !["purge"] = 1, !["fault"] = 3]}
=============================================================================
