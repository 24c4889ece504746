--------------------------- MODULE MCAlbumDownloads ---------------------------
(* Small instances of AlbumDownloads for TLC. *)
EXTENDS AlbumDownloads
=============================================================================
