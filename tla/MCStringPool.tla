---------------------------- MODULE MCStringPool ----------------------------
(***************************************************************************)
(* Four texts of which three share a bucket, class files with up to three  *)
(* strings and two literals of the program.                                *)
(***************************************************************************)
EXTENDS StringPool, TLC

MCTexts == {"main", "println", "<clinit>", "size"}
MCBucketOf == ("main" :> 0) @@ ("println" :> 0) @@ ("<clinit>" :> 0) @@ ("size" :> 1)
MCLiteralText == (11 :> "println") @@ (12 :> "main")

============================================================================
