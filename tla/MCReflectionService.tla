------------------------ MODULE MCReflectionService ------------------------
(* A small instance of ReflectionService for TLC.  Paths "a" and "b" exist *)
(* in two versions: a1 imports b1; a2 imports b2, which imports c, and has *)
(* its extension inside a message.  N is a message nested in M.            *)
EXTENDS ReflectionService, TLC

CONSTANTS a1, a2, b1, b2, c, S, T, M, N, R

FilesOf     == {a1, a2, b1, b2, c}
PathNames   == {"a", "b", "c"}
SymbolNames == {S, T, M, N, R}
Numbers     == {<<M, 1>>, <<M, 2>>}

FilePaths    == a1 :> "a" @@ a2 :> "a" @@ b1 :> "b" @@ b2 :> "b" @@ c :> "c"
FileImports  == a1 :> {b1} @@ a2 :> {b2} @@ b1 :> {} @@ b2 :> {c} @@ c :> {}
FileSymbols  == a1 :> {S} @@ a2 :> {S} @@ b1 :> {M} @@ b2 :> {M} @@ c :> {}
FileMessages == a1 :> {} @@ a2 :> {} @@ b1 :> {M} @@ b2 :> {M} @@ c :> {}
FileExtends  == a1 :> {<<M, 1>>} @@ a2 :> {} @@ b1 :> {} @@ b2 :> {} @@ c :> {<<M, 2>>}
FileNested   == a1 :> {} @@ a2 :> {} @@ b1 :> {N} @@ b2 :> {N} @@ c :> {}
FileInside   == a1 :> {} @@ a2 :> {<<M, 1>>} @@ b1 :> {} @@ b2 :> {} @@ c :> {}

(* The old and the new version, an upstream that was redeployed while its  *)
(* files were fetched, and a service whose files could not be fetched.     *)
UpstreamReports ==
  {[services |-> {S, R}, files |-> <<a1>>],
   [services |-> {S}, files |-> <<a2>>],
   [services |-> {S}, files |-> <<a2, a1>>],
   [services |-> {T}, files |-> <<>>]}
=============================================================================
