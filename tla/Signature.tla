----------------------------- MODULE Signature -----------------------------
(***************************************************************************)
(* calculate_nargs of signature.c: the words that the arguments of a       *)
(* method take, counted from the characters of its signature.  The result  *)
(* decides where every frame of the method begins.                         *)
(*                                                                         *)
(* An action is the start of a call or one turn of the loop.               *)
(***************************************************************************)
EXTENDS Integers, Sequences

CONSTANTS
    Signatures,    \* the strings that are used as signatures
    Text,          \* signature -> its characters
    Descriptors,   \* those that follow the grammar of class files
    Dims, Base,    \* descriptor -> parameter -> "[" in front of it; its letter
    StartOf,       \* descriptor -> parameter -> position of its first character
    WordsBefore,   \* descriptor -> parameter -> words of the ones before it
    U1Values       \* number of values of a u1

OneWord == {"B", "C", "F", "I", "S", "Z"}
TwoWords == {"J", "D"}

Count(d) == Len(Dims[d])
WordsOf(d, j) == IF Dims[d][j] = 0 /\ Base[d][j] \in TwoWords THEN 2 ELSE 1

\* Position, for parameter j of d, of its letter and of its last character.
LetterOf(d, j) == StartOf[d][j] + Dims[d][j]
LastOf(d, j) == StartOf[d][j + 1] - 1

\* The grammar: "(" parameters ")" result, where a parameter is any number of "["
\* and a letter, and the letter "L" is followed by a name and ";".
IsParameter(d, j) ==
    /\ WordsBefore[d][j + 1] = WordsBefore[d][j] + WordsOf(d, j)
    /\ LetterOf(d, j) <= LastOf(d, j)
    /\ \A p \in StartOf[d][j] .. LetterOf(d, j) - 1 : Text[d][p] = "["
    /\ Text[d][LetterOf(d, j)] = Base[d][j]
    /\ Base[d][j] # "L" => LastOf(d, j) = LetterOf(d, j)
    /\ Base[d][j] = "L" =>
          /\ LetterOf(d, j) < LastOf(d, j)
          /\ Text[d][LastOf(d, j)] = ";"
          /\ \A p \in LetterOf(d, j) + 1 .. LastOf(d, j) - 1 :
                Text[d][p] \notin {";", ")"}

\* StartOf and WordsBefore go one beyond the last parameter.  Java limits the
\* words of a method to a u1.
IsDescriptor(d) ==
    /\ Dims[d] \in Seq(Nat)
    /\ Base[d] \in [1 .. Count(d) -> OneWord \cup TwoWords \cup {"L"}]
    /\ StartOf[d] \in [1 .. Count(d) + 1 -> 1 .. Len(Text[d])]
    /\ WordsBefore[d] \in [1 .. Count(d) + 1 -> 0 .. U1Values - 1]
    /\ Text[d][1] = "(" /\ StartOf[d][1] = 2 /\ WordsBefore[d][1] = 0
    /\ Text[d][StartOf[d][Count(d) + 1]] = ")"
    /\ \A j \in 1 .. Count(d) : IsParameter(d, j)

ASSUME SignatureAssumption ==
    /\ U1Values \in Nat \ {0}
    /\ Text \in [Signatures -> Seq(STRING)]
    /\ Descriptors \subseteq Signatures
    /\ \A d \in Descriptors : IsDescriptor(d)

VARIABLES
    scan,           \* "idle", "scanning", "counted", or how the call went wrong
    signature,      \* the argument of the call
    i,              \* position of the next character
    nargs, inClassPart, inArrayPart

scanVars == <<scan, signature, i, nargs, inClassPart, inArrayPart>>

NUL == "NUL"
CharAt(s, p) == IF p \in DOMAIN Text[s] THEN Text[s][p] ELSE NUL
signature_char == CharAt(signature, i)

InitScan ==
    /\ scan = "idle"
    /\ signature \in Signatures
    /\ i = 1
    /\ nargs = 0
    /\ inClassPart = FALSE
    /\ inArrayPart = FALSE

calculate_nargs(s) ==
    /\ scan = "idle"
    /\ scan' = IF CharAt(s, 1) = "(" THEN "scanning" ELSE "invalid"
    /\ signature' = s
    /\ i' = 2
    /\ nargs' = 0
    /\ inClassPart' = FALSE
    /\ inArrayPart' = FALSE

\* The loop goes on with the next character; behind the end of the text there is
\* none.
Turn == scan = "scanning" /\ i' = i + 1 /\ UNCHANGED signature
Proceeds ==
    /\ signature_char # ")"
    /\ scan' = IF i > Len(Text[signature]) THEN "overrun" ELSE scan

Close ==
    /\ Turn
    /\ signature_char = ")"
    /\ scan' = "counted"
    /\ UNCHANGED <<nargs, inClassPart, inArrayPart>>

\* The characters of a class name up to the semicolon.
ClassPart ==
    /\ Turn /\ Proceeds
    /\ inClassPart
    /\ inClassPart' = (signature_char # ";")
    /\ UNCHANGED <<nargs, inArrayPart>>

\* The element type of an array has no words of its own.
ElementTypeCounted ==
    /\ nargs' = IF signature_char \in TwoWords THEN nargs + 1 ELSE nargs
    /\ inArrayPart' = FALSE
    /\ inClassPart' = (signature_char = "L")

ElementType ==
    /\ inArrayPart' = FALSE
    /\ inClassPart' = (signature_char = "L")
    /\ UNCHANGED nargs

ArrayPart ==
    /\ Turn /\ Proceeds
    /\ ~ inClassPart /\ inArrayPart
    /\ IF signature_char = "[" THEN UNCHANGED <<nargs, inClassPart, inArrayPart>>
       ELSE ElementType

\* The words that the character at the start of a parameter stands for.
WordsFor(char) == IF char \in TwoWords THEN 2 ELSE 1

Parameter ==
    /\ Turn /\ Proceeds
    /\ ~ inClassPart /\ ~ inArrayPart
    /\ signature_char \in OneWord \cup TwoWords \cup {"L", "["}
    /\ nargs' = (nargs + WordsFor(signature_char)) % U1Values
    /\ inClassPart' = (signature_char = "L")
    /\ inArrayPart' = (signature_char = "[")

Invalid ==
    /\ Turn
    /\ ~ inClassPart /\ ~ inArrayPart
    /\ signature_char \notin OneWord \cup TwoWords \cup {"L", "[", ")"}
    /\ scan' = "invalid"
    /\ UNCHANGED <<nargs, inClassPart, inArrayPart>>

Scan == Close \/ ClassPart \/ ArrayPart \/ Parameter \/ Invalid

\* The caller takes the result.
Return ==
    /\ scan = "counted"
    /\ scan' = "idle"
    /\ i' = 1 /\ nargs' = 0
    /\ inClassPart' = FALSE /\ inArrayPart' = FALSE
    /\ UNCHANGED signature

NextScan == (\E s \in Signatures : calculate_nargs(s)) \/ Scan \/ Return

SpecScan == InitScan /\ [][NextScan]_scanVars

----------------------------------------------------------------------------
(* Correctness. *)

\* For every signature of the grammar the count is the number of words its
\* parameters take: one for an array of anything and for a class of any name,
\* two for a long or a double; and the scan does not leave the text.
NargsRight ==
    signature \in Descriptors =>
        /\ scan \notin {"invalid", "overrun"}
        /\ scan = "counted" => nargs = WordsBefore[signature][Count(signature) + 1]

\* Where the scan stands: in front of parameter j with the words before it, or
\* inside it with its words as well.
InFront(d, j) ==
    /\ i = StartOf[d][j] /\ nargs = WordsBefore[d][j]
    /\ ~ inClassPart /\ ~ inArrayPart

Inside(d, j) ==
    /\ i \in StartOf[d][j] + 1 .. LastOf(d, j)
    /\ nargs = WordsBefore[d][j + 1]
    /\ inArrayPart = (i <= LetterOf(d, j))
    /\ inClassPart = (i > LetterOf(d, j))

ScanInv ==
    /\ scan \in {"idle", "scanning", "counted", "invalid", "overrun"}
    /\ signature \in Signatures
    /\ NargsRight
    /\ scan = "scanning" /\ signature \in Descriptors =>
          \/ \E j \in 1 .. Count(signature) + 1 : InFront(signature, j)
          \/ \E j \in 1 .. Count(signature) : Inside(signature, j)

============================================================================
