---------------------------- MODULE MCDownloader ----------------------------
(***************************************************************************)
(* Small instances of Downloader for TLC.                                  *)
(***************************************************************************)
EXTENDS DownloaderRefinement, TLC

CONSTANTS r1, r2, r3, x, y

RequesterSymmetry == Permutations(Requesters)
=============================================================================
