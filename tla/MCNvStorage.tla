---------------------------- MODULE MCNvStorage ----------------------------
(***************************************************************************)
(* Small instances of NvStorageFlash for TLC.                              *)
(***************************************************************************)
EXTENDS NvStorageFlash

\* Two bytes of one bit in a blob: every blob that is not empty.
MCBlobs == [1 .. BlobSize -> Bytes] \ {EmptyBlob}
=============================================================================
