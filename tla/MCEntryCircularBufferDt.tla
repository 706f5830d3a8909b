---------------------- MODULE MCEntryCircularBufferDt ----------------------
(* Instances of EntryCircularBufferDt for TLC. *)
EXTENDS EntryCircularBufferDt

=============================================================================
