--------------------------- MODULE LifecycleProofs ---------------------------
(***************************************************************************)
(* Proof, for any class files, sound or not, and any number of programs,   *)
(* instructions and classes, that one program after another leaves the     *)
(* static variables right for the next, that the parser types what it      *)
(* reads and sets the shortcut of a method to code of its own, and that    *)
(* the scan of a signature counts its words.                               *)
(***************************************************************************)
EXTENDS Lifecycle, WellFoundedInduction, TLAPS

----------------------------------------------------------------------------
(* The scan of a signature on its own: calculate_nargs counts the words of  *)
(* every signature of the grammar.  ScanInv says where in it the scan is.  *)

LEMMA DescriptorTypes ==
    ASSUME NEW d \in Descriptors
    PROVE  /\ d \in Signatures
           /\ Text[d] \in Seq(STRING) /\ Len(Text[d]) \in Nat
           /\ DOMAIN Text[d] = 1 .. Len(Text[d])
           /\ Count(d) \in Nat
           /\ \A j \in 1 .. Count(d) + 1 : StartOf[d][j] \in 1 .. Len(Text[d])
           /\ \A j \in 1 .. Count(d) + 1 : WordsBefore[d][j] \in 0 .. U1Values - 1
           /\ \A j \in 1 .. Count(d) : Dims[d][j] \in Nat
           /\ \A j \in 1 .. Count(d) : Base[d][j] \in OneWord \cup TwoWords \cup {"L"}
    <1>1. d \in Signatures /\ Text[d] \in Seq(STRING)
        BY SignatureAssumption
    <1>2. IsDescriptor(d)
        BY SignatureAssumption
    <1>3. /\ Dims[d] \in Seq(Nat)
          /\ Base[d] \in [1 .. Count(d) -> OneWord \cup TwoWords \cup {"L"}]
          /\ StartOf[d] \in [1 .. Count(d) + 1 -> 1 .. Len(Text[d])]
          /\ WordsBefore[d] \in [1 .. Count(d) + 1 -> 0 .. U1Values - 1]
        BY <1>2 DEF IsDescriptor
    <1>4. Len(Text[d]) \in Nat /\ DOMAIN Text[d] = 1 .. Len(Text[d])
        BY <1>1
    <1>5. Count(d) \in Nat /\ \A j \in 1 .. Count(d) : Dims[d][j] \in Nat
        BY <1>3 DEF Count
    <1> QED
        BY <1>1, <1>3, <1>4, <1>5

\* Parameter j of d from position a, with its letter at l and its end at e, and
\* the words before and behind it.
Placed(d, j, a, l, e, v, w) ==
    /\ a = StartOf[d][j] /\ l = LetterOf(d, j) /\ e = LastOf(d, j)
    /\ StartOf[d][j + 1] = e + 1
    /\ 1 <= a /\ a <= l /\ l <= e /\ e < Len(Text[d])
    /\ \A p \in a .. l - 1 : Text[d][p] = "["
    /\ Text[d][l] = Base[d][j]
    /\ Base[d][j] # "L" => e = l
    /\ Base[d][j] = "L" =>
          /\ l < e /\ Text[d][e] = ";"
          /\ \A p \in l + 1 .. e - 1 : Text[d][p] \notin {";", ")"}
    /\ Base[d][j] \in OneWord \cup TwoWords \cup {"L"}
    /\ Dims[d][j] = 0 <=> a = l
    /\ v = WordsBefore[d][j] /\ w = WordsBefore[d][j + 1]
    /\ w < U1Values /\ w = v + WordsOf(d, j)

LEMMA Parameters ==
    ASSUME NEW d \in Descriptors, NEW j \in 1 .. Count(d)
    PROVE  \E a, l, e, v, w \in Nat : Placed(d, j, a, l, e, v, w)
    <1>1. Count(d) \in Nat /\ j \in Nat /\ j \in 1 .. Count(d) + 1 /\ j + 1 \in 1 .. Count(d) + 1
        BY DescriptorTypes
    <1>2. PICK a \in 1 .. Len(Text[d]) : a = StartOf[d][j]
        BY <1>1, DescriptorTypes
    <1>3. PICK t \in 1 .. Len(Text[d]) : t = StartOf[d][j + 1]
        BY <1>1, DescriptorTypes
    <1>4. PICK m \in Nat : m = Dims[d][j]
        BY DescriptorTypes
    <1>5. PICK n \in Nat : n = Len(Text[d])
        BY DescriptorTypes
    <1>6. PICK v \in 0 .. U1Values - 1 : v = WordsBefore[d][j]
        BY <1>1, DescriptorTypes
    <1>7. PICK w \in 0 .. U1Values - 1 : w = WordsBefore[d][j + 1]
        BY <1>1, DescriptorTypes
    <1>8. PICK l \in Nat : l = LetterOf(d, j) /\ l = a + m
        BY <1>2, <1>4, <1>5 DEF LetterOf
    <1>9. PICK e \in Nat : e = LastOf(d, j) /\ t = e + 1
        BY <1>3, <1>5 DEF LastOf
    <1>10. IsParameter(d, j)
        <2>1. IsDescriptor(d)
            BY SignatureAssumption
        <2> QED
            BY <2>1 DEF IsDescriptor
    <1>11. /\ w = v + WordsOf(d, j) /\ l <= e
           /\ \A p \in a .. l - 1 : Text[d][p] = "["
           /\ Text[d][l] = Base[d][j]
           /\ Base[d][j] # "L" => e = l
           /\ Base[d][j] = "L" =>
                /\ l < e /\ Text[d][e] = ";"
                /\ \A p \in l + 1 .. e - 1 : Text[d][p] \notin {";", ")"}
        BY <1>2, <1>6, <1>7, <1>8, <1>9, <1>10 DEF IsParameter
    <1>12. Base[d][j] \in OneWord \cup TwoWords \cup {"L"}
        BY DescriptorTypes
    <1>13. /\ a \in Nat /\ 1 <= a /\ a <= l /\ e < Len(Text[d])
           /\ StartOf[d][j + 1] = e + 1
           /\ Dims[d][j] = 0 <=> a = l
        BY <1>2, <1>3, <1>4, <1>5, <1>8, <1>9
    <1>14. U1Values \in Nat
        BY SignatureAssumption
    <1>15. v \in Nat /\ w \in Nat /\ w < U1Values
        BY <1>6, <1>7, <1>14
    <1>16. Placed(d, j, a, l, e, v, w)
        BY <1>2, <1>6, <1>7, <1>8, <1>9, <1>11, <1>12, <1>13, <1>15 DEF Placed
    <1> QED
        BY <1>8, <1>9, <1>13, <1>15, <1>16

\* The character where a descriptor's scan stands.
Standing(d) ==
    \/ \E j \in 1 .. Count(d) + 1 : InFront(d, j)
    \/ \E j \in 1 .. Count(d) : Inside(d, j)

\* The states between the start of the scan and its end.
Scanning(d) == scan = "scanning" /\ signature = d

LEMMA InitScanning == InitScan => ScanInv
    BY DEF InitScan, ScanInv, NargsRight

\* In front of a parameter its first character is counted, with all its words.
LEMMA FrontStep ==
    ASSUME NEW d \in Descriptors, NEW j \in 1 .. Count(d),
           Scanning(d), InFront(d, j), Scan
    PROVE  /\ scan' = "scanning" /\ signature' = d
           /\ InFront(d, j + 1)' \/ Inside(d, j)'
    <1>1. PICK a, l, e, v, w \in Nat : Placed(d, j, a, l, e, v, w)
        BY Parameters
    <1>2. /\ i = a /\ nargs = v /\ ~ inClassPart /\ ~ inArrayPart
          /\ scan = "scanning" /\ signature = d
        BY <1>1 DEF Scanning, InFront, Placed
    <1>3. 1 <= a /\ a <= l /\ l <= e /\ e < Len(Text[d])
        BY <1>1 DEF Placed
    <1>4. PICK n \in Nat : n = Len(Text[d]) /\ DOMAIN Text[d] = 1 .. n
        BY DescriptorTypes
    <1>5. a \in DOMAIN Text[d] /\ ~ (a > Len(Text[d]))
        BY <1>3, <1>4
    <1>6. PICK char : char = Text[d][a] /\ char = signature_char
        BY <1>2, <1>5 DEF signature_char, CharAt
    <1>7. /\ a = l => char = Base[d][j] /\ Dims[d][j] = 0
          /\ a # l => char = "[" /\ Dims[d][j] # 0
        <2>1. a # l => a \in a .. l - 1
            BY <1>3
        <2>2. /\ \A p \in a .. l - 1 : Text[d][p] = "["
              /\ Text[d][l] = Base[d][j]
              /\ Dims[d][j] = 0 <=> a = l
            BY <1>1 DEF Placed
        <2> QED
            BY <2>1, <2>2, <1>6
    <1>8. Base[d][j] \in OneWord \cup TwoWords \cup {"L"}
        BY <1>1 DEF Placed
    <1>9. char \in OneWord \cup TwoWords \cup {"L", "["}
        BY <1>7, <1>8
    <1>10. char # ")"
        BY <1>9 DEF OneWord, TwoWords
    <1>11. Parameter
        BY <1>2, <1>6, <1>9, <1>10 DEF Scan, Close, ClassPart, ArrayPart, Invalid, Parameter
    <1>12. /\ signature' = d /\ i' = a + 1
           /\ nargs' = (v + WordsFor(char)) % U1Values
           /\ inClassPart' = (char = "L") /\ inArrayPart' = (char = "[")
        BY <1>2, <1>6, <1>11 DEF Parameter, Turn
    <1>13. scan' = "scanning"
        BY <1>2, <1>5, <1>11 DEF Parameter, Proceeds
    <1>14. nargs' = w
        <2>1. WordsFor(char) = WordsOf(d, j)
            <3>1. CASE a = l
                BY <3>1, <1>7 DEF WordsFor, WordsOf
            <3>2. CASE a # l
                BY <3>2, <1>7 DEF WordsFor, WordsOf, TwoWords
            <3> QED
                BY <3>1, <3>2
        <2>2. w < U1Values /\ w = v + WordsOf(d, j)
            BY <1>1 DEF Placed
        <2>3. U1Values \in Nat
            BY SignatureAssumption
        <2>4. w % U1Values = w
            BY <2>2, <2>3
        <2> QED
            BY <1>12, <2>1, <2>2, <2>4
    <1>15. CASE e = a
        <2>1. char # "L" /\ char # "["
            <3>1. a = l /\ Base[d][j] # "L"
                <4>1. a = l /\ e = l /\ ~ (l < e)
                    BY <1>3, <1>15
                <4>2. Base[d][j] = "L" => l < e
                    BY <1>1 DEF Placed
                <4> QED
                    BY <4>1, <4>2
            <3> QED
                BY <3>1, <1>7, <1>8 DEF OneWord, TwoWords
        <2>2. StartOf[d][j + 1] = e + 1 /\ WordsBefore[d][j + 1] = w
            BY <1>1 DEF Placed
        <2>3. i' = StartOf[d][j + 1] /\ nargs' = WordsBefore[d][j + 1]
            BY <1>12, <1>14, <1>15, <2>2
        <2>4. ~ inClassPart' /\ ~ inArrayPart'
            BY <1>12, <2>1
        <2> QED
            BY <1>12, <1>13, <2>3, <2>4 DEF InFront
    <1>16. CASE e # a
        <2>1. i' \in a + 1 .. e
            BY <1>16, <1>3, <1>12
        <2>2. char = "L" <=> a = l
            <3>1. a = l => Base[d][j] = "L"
                BY <1>1, <1>16 DEF Placed
            <3> QED
                BY <3>1, <1>7
        <2>3. (char = "[") = (i' <= l) /\ (char = "L") = (i' > l)
            <3>1. CASE a = l
                BY <3>1, <2>2, <1>12
            <3>2. CASE a # l
                BY <3>2, <1>7, <1>3, <1>12
            <3> QED
                BY <3>1, <3>2
        <2>4. a = StartOf[d][j] /\ l = LetterOf(d, j) /\ e = LastOf(d, j) /\ w = WordsBefore[d][j + 1]
            BY <1>1 DEF Placed
        <2>5. inArrayPart' = (i' <= LetterOf(d, j)) /\ inClassPart' = (i' > LetterOf(d, j))
            BY <2>3, <2>4, <1>12
        <2>6. i' \in StartOf[d][j] + 1 .. LastOf(d, j) /\ nargs' = WordsBefore[d][j + 1]
            BY <2>1, <2>4, <1>14
        <2> QED
            BY <2>5, <2>6, <1>12, <1>13 DEF Inside
    <1> QED
        BY <1>15, <1>16

\* Inside a parameter nothing more is counted.
LEMMA InsideStep ==
    ASSUME NEW d \in Descriptors, NEW j \in 1 .. Count(d),
           Scanning(d), Inside(d, j), Scan
    PROVE  /\ scan' = "scanning" /\ signature' = d
           /\ InFront(d, j + 1)' \/ Inside(d, j)'
    <1>1. PICK a, l, e, v, w \in Nat : Placed(d, j, a, l, e, v, w)
        BY Parameters
    <1>2. /\ 1 <= a /\ a <= l /\ l <= e /\ e < Len(Text[d])
          /\ a = StartOf[d][j] /\ l = LetterOf(d, j) /\ e = LastOf(d, j)
          /\ w = WordsBefore[d][j + 1] /\ StartOf[d][j + 1] = e + 1
        BY <1>1 DEF Placed
    <1>3. /\ i \in a + 1 .. e /\ nargs = w
          /\ inArrayPart = (i <= l) /\ inClassPart = (i > l)
          /\ scan = "scanning" /\ signature = d
        BY <1>2 DEF Scanning, Inside
    <1>4. PICK p \in Nat : p = i /\ a < p /\ p <= e
        BY <1>3
    <1>5. PICK n \in Nat : n = Len(Text[d]) /\ DOMAIN Text[d] = 1 .. n
        BY DescriptorTypes
    <1>6. p \in DOMAIN Text[d] /\ ~ (p > Len(Text[d]))
        BY <1>2, <1>4, <1>5
    <1>7. PICK char : char = Text[d][p] /\ char = signature_char
        BY <1>3, <1>4, <1>6 DEF signature_char, CharAt
    <1> DEFINE Onward == scan' = "scanning" /\ signature' = d /\ i' = p + 1 /\ nargs' = w
    \* Where the scan is after the step decides what it left.
    <1>8. ASSUME Onward, p # e,
                 ~ inArrayPart' <=> p + 1 > l, inClassPart' <=> p + 1 > l,
                 inArrayPart' \in BOOLEAN, inClassPart' \in BOOLEAN
          PROVE  Inside(d, j)'
        <2>1. i' \in a + 1 .. e
            BY <1>8, <1>4
        <2>2. (p + 1 > l) \in BOOLEAN /\ (p + 1 <= l) \in BOOLEAN /\ (p + 1 <= l <=> ~ (p + 1 > l))
            BY <1>4
        <2>3. inArrayPart' = (p + 1 <= l) /\ inClassPart' = (p + 1 > l)
            BY <1>8, <2>2
        <2>4. inArrayPart' = (i' <= LetterOf(d, j)) /\ inClassPart' = (i' > LetterOf(d, j))
            BY <1>2, <1>8, <2>3
        <2>5. i' \in StartOf[d][j] + 1 .. LastOf(d, j) /\ nargs' = WordsBefore[d][j + 1]
            BY <1>2, <1>8, <2>1
        <2> QED
            BY <2>4, <2>5 DEF Inside
    <1>9. ASSUME Onward, p = e, ~ inArrayPart', ~ inClassPart'
          PROVE  InFront(d, j + 1)'
        <2>1. i' = StartOf[d][j + 1] /\ nargs' = WordsBefore[d][j + 1]
            BY <1>2, <1>9
        <2> QED
            BY <1>9, <2>1 DEF InFront
    <1>10. CASE p < l
        <2>1. char = "["
            <3>1. p \in a .. l - 1
                BY <1>4, <1>10
            <3> QED
                BY <3>1, <1>1, <1>7 DEF Placed
        <2>2. inArrayPart /\ ~ inClassPart
            <3>1. (i <= l) = TRUE /\ (i > l) = FALSE
                BY <1>4, <1>10
            <3> QED
                BY <3>1, <1>3
        <2>3. ArrayPart
            BY <2>1, <2>2, <1>7 DEF Scan, Close, ClassPart, Parameter, Invalid, ArrayPart
        <2>4. /\ signature' = d /\ i' = p + 1
              /\ nargs' = w /\ inClassPart' = inClassPart /\ inArrayPart' = inArrayPart
            BY <2>1, <2>3, <1>3, <1>4, <1>7 DEF ArrayPart, Turn
        <2>5. scan' = "scanning"
            BY <2>3, <1>3, <1>4, <1>6 DEF ArrayPart, Proceeds
        <2>6. p # e /\ ~ (p + 1 > l)
            BY <1>2, <1>4, <1>10
        <2>7. inArrayPart' = TRUE /\ inClassPart' = FALSE
            BY <2>2, <2>4, <1>3
        <2> QED
            BY <1>8, <2>4, <2>5, <2>6, <2>7
    <1>11. CASE p = l
        <2>1. char = Base[d][j] /\ Base[d][j] \in OneWord \cup TwoWords \cup {"L"}
            BY <1>1, <1>7, <1>11 DEF Placed
        <2>2. inArrayPart /\ ~ inClassPart
            <3>1. (i <= l) = TRUE /\ (i > l) = FALSE
                BY <1>4, <1>11
            <3> QED
                BY <3>1, <1>3
        <2>3. char # ")" /\ char # "["
            BY <2>1 DEF OneWord, TwoWords
        <2>4. ArrayPart
            BY <2>2, <2>3, <1>7 DEF Scan, Close, ClassPart, Parameter, Invalid, ArrayPart
        <2>5. /\ signature' = d /\ i' = p + 1
              /\ nargs' = w /\ inArrayPart' = FALSE /\ inClassPart' = (char = "L")
            BY <2>3, <2>4, <1>3, <1>4, <1>7 DEF ArrayPart, Turn, ElementType
        <2>6. scan' = "scanning"
            BY <2>4, <1>3, <1>4, <1>6 DEF ArrayPart, Proceeds
        <2>7. char = "L" <=> p # e
            BY <1>1, <1>2, <1>11, <2>1 DEF Placed
        <2>8. p + 1 > l
            BY <1>11
        <2>9. CASE p = e
            BY <1>9, <2>5, <2>6, <2>7, <2>9
        <2>10. CASE p # e
            BY <1>8, <2>5, <2>6, <2>7, <2>8, <2>10
        <2> QED
            BY <2>5, <2>6, <2>9, <2>10
    <1>12. CASE p > l
        <2>1. inArrayPart = FALSE /\ inClassPart = TRUE
            <3>1. (i <= l) = FALSE /\ (i > l) = TRUE
                BY <1>4, <1>12
            <3> QED
                BY <3>1, <1>3
        <2>2. Base[d][j] = "L"
            <3>1. e # l
                BY <1>4, <1>12
            <3>2. Base[d][j] # "L" => e = l
                BY <1>1 DEF Placed
            <3> QED
                BY <3>1, <3>2
        <2>3. /\ p = e => char = ";"
              /\ p # e => char \notin {";", ")"}
            <3>1. p # e => p \in l + 1 .. e - 1
                BY <1>4, <1>12
            <3> QED
                BY <2>2, <3>1, <1>1, <1>7 DEF Placed
        <2>4. char # ")"
            BY <2>3
        <2>5. ClassPart
            BY <2>1, <2>4, <1>7 DEF Scan, Close, ArrayPart, Parameter, Invalid, ClassPart
        <2>6. /\ signature' = d /\ i' = p + 1
              /\ nargs' = w /\ inArrayPart' = FALSE /\ inClassPart' = (char # ";")
            BY <2>1, <2>5, <1>3, <1>4, <1>7 DEF ClassPart, Turn
        <2>7. scan' = "scanning"
            BY <2>5, <1>3, <1>4, <1>6 DEF ClassPart, Proceeds
        <2>8. p + 1 > l
            BY <1>12
        <2>9. CASE p = e
            BY <1>9, <2>3, <2>6, <2>7, <2>9
        <2>10. CASE p # e
            BY <1>8, <2>3, <2>6, <2>7, <2>8, <2>10
        <2> QED
            BY <2>6, <2>7, <2>9, <2>10
    <1> QED
        BY <1>4, <1>10, <1>11, <1>12

\* Behind the last parameter the scan ends with all words counted.
LEMMA EndStep ==
    ASSUME NEW d \in Descriptors, Scanning(d), InFront(d, Count(d) + 1), Scan
    PROVE  /\ scan' = "counted" /\ signature' = d
           /\ nargs' = WordsBefore[d][Count(d) + 1]
    <1>1. /\ i = StartOf[d][Count(d) + 1] /\ nargs = WordsBefore[d][Count(d) + 1]
          /\ ~ inClassPart /\ ~ inArrayPart /\ signature = d
        BY DEF Scanning, InFront
    <1>2. i \in DOMAIN Text[d] /\ Text[d][i] = ")"
        <2>1. Count(d) + 1 \in 1 .. Count(d) + 1
            BY DescriptorTypes
        <2>2. StartOf[d][Count(d) + 1] \in 1 .. Len(Text[d]) /\ DOMAIN Text[d] = 1 .. Len(Text[d])
            BY <2>1, DescriptorTypes
        <2>3. Text[d][StartOf[d][Count(d) + 1]] = ")"
            BY SignatureAssumption DEF IsDescriptor
        <2> QED
            BY <1>1, <2>2, <2>3
    <1>3. signature_char = ")"
        BY <1>1, <1>2 DEF signature_char, CharAt
    <1>4. Close
        BY <1>1, <1>3 DEF Scan, ClassPart, ArrayPart, Parameter, Invalid, Proceeds
    <1> QED
        BY <1>1, <1>4 DEF Close, Turn

LEMMA ScanStep == ScanInv /\ [NextScan]_scanVars => ScanInv'
    <1> SUFFICES ASSUME ScanInv, [NextScan]_scanVars
                 PROVE  ScanInv'
        OBVIOUS
    <1>1. ASSUME NEW s \in Signatures, calculate_nargs(s)
          PROVE  ScanInv'
        <2>1. /\ scan' = IF CharAt(s, 1) = "(" THEN "scanning" ELSE "invalid"
              /\ signature' = s /\ i' = 2 /\ nargs' = 0
              /\ inClassPart' = FALSE /\ inArrayPart' = FALSE
            BY <1>1 DEF calculate_nargs
        <2>2. CASE s \in Descriptors
            <3>1. Text[s][1] = "(" /\ StartOf[s][1] = 2 /\ WordsBefore[s][1] = 0
                BY <2>2, SignatureAssumption DEF IsDescriptor
            <3>2. 1 \in DOMAIN Text[s] /\ 1 \in 1 .. Count(s) + 1
                <4>1. Count(s) \in Nat
                    BY <2>2, DescriptorTypes
                <4>2. 1 \in 1 .. Count(s) + 1
                    BY <4>1
                <4>3. 2 \in 1 .. Len(Text[s])
                    BY <2>2, <3>1, <4>2, DescriptorTypes
                <4> QED
                    BY <2>2, <4>2, <4>3, DescriptorTypes
            <3>3. scan' = "scanning" /\ InFront(s, 1)'
                BY <2>1, <3>1, <3>2 DEF CharAt, InFront
            <3> QED
                BY <2>1, <3>2, <3>3 DEF ScanInv, NargsRight
        <2>3. CASE s \notin Descriptors
            BY <2>1, <2>3 DEF ScanInv, NargsRight
        <2> QED
            BY <2>2, <2>3
    <1>2. ASSUME Scan, signature \in Descriptors
          PROVE  ScanInv'
        <2> DEFINE d == signature
        <2>1. Scanning(d)
            BY <1>2 DEF Scanning, Scan, Close, ClassPart, ArrayPart, Parameter, Invalid, Turn
        <2>2. Standing(d)
            BY <1>2, <2>1 DEF ScanInv, Scanning, Standing
        <2>3. Count(d) \in Nat
            BY <1>2, DescriptorTypes
        <2>4. ASSUME NEW j \in 1 .. Count(d), InFront(d, j)
              PROVE  ScanInv'
            <3>1. /\ scan' = "scanning" /\ signature' = d
                  /\ InFront(d, j + 1)' \/ Inside(d, j)'
                BY <1>2, <2>1, <2>4, FrontStep
            <3>2. j + 1 \in 1 .. Count(d) + 1
                BY <2>3
            <3> QED
                BY <1>2, <3>1, <3>2 DEF ScanInv, NargsRight
        <2>5. ASSUME NEW j \in 1 .. Count(d), Inside(d, j)
              PROVE  ScanInv'
            <3>1. /\ scan' = "scanning" /\ signature' = d
                  /\ InFront(d, j + 1)' \/ Inside(d, j)'
                BY <1>2, <2>1, <2>5, InsideStep
            <3>2. j + 1 \in 1 .. Count(d) + 1
                BY <2>3
            <3> QED
                BY <1>2, <3>1, <3>2 DEF ScanInv, NargsRight
        <2>6. ASSUME InFront(d, Count(d) + 1)
              PROVE  ScanInv'
            <3>1. scan' = "counted" /\ signature' = d /\ nargs' = WordsBefore[d][Count(d) + 1]
                BY <1>2, <2>1, <2>6, EndStep
            <3> QED
                BY <1>2, <3>1 DEF ScanInv, NargsRight
        <2>7. \A j \in 1 .. Count(d) + 1 : j \in 1 .. Count(d) \/ j = Count(d) + 1
            BY <2>3
        <2> QED
            BY <2>2, <2>4, <2>5, <2>6, <2>7 DEF Standing
    <1>3. ASSUME Scan, signature \notin Descriptors
          PROVE  ScanInv'
        BY <1>3 DEF ScanInv, NargsRight, Scan, Close, ClassPart, ArrayPart, Parameter,
                    Invalid, Turn, Proceeds
    <1>4. CASE Return
        BY <1>4 DEF Return, ScanInv, NargsRight
    <1>5. CASE UNCHANGED scanVars
        BY <1>5 DEF scanVars, ScanInv, NargsRight, InFront, Inside
    <1> QED
        BY <1>1, <1>2, <1>3, <1>4, <1>5 DEF NextScan

\* For every set of signatures: the count of a signature of the grammar is the
\* number of words that its parameters take, and its scan stays in the text.
THEOREM WordsCounted == SpecScan => []NargsRight
    <1>1. ScanInv => NargsRight
        BY DEF ScanInv
    <1> QED
        BY <1>1, InitScanning, ScanStep, PTL DEF SpecScan

----------------------------------------------------------------------------
(* The inductive invariants. *)

\* Sequences whose elements need not be of one kind.
IsSequence(s) == \E S : s \in Seq(S)

\* The phases and the parser: it works only while a program loads a class.
PhasesOK ==
    /\ vm \in Phases /\ harness \in {"java", "fixture", "parse only"}
    /\ programs \in Nat
    /\ vm # "none" => programs >= 1
    /\ at \in {"idle", "start", "reading", "signature", "parsed", "exit", "unknown"}
    /\ vm \in {"none", "loaded", "running", "stopped"} => at = "idle"

\* Once the magic number is read there is a string pool, and every class was
\* parsed with the one that is there.
OnePool ==
    /\ pool = [id |-> pool.id, texts |-> pool.texts]
    /\ pool.id \in 0 .. programs /\ natives \in 0 .. programs
    /\ at \in {"reading", "signature", "parsed"} => pool.id # 0
    /\ Active => pool.id # 0
    /\ vm \in {"running", "resolving"} => natives = pool.id

RingOK ==
    /\ IsSequence(ring)
    /\ Active => Len(ring) >= 1
    /\ vm \in {"none", "loading"} => ring = << >>
    /\ \A k \in DOMAIN ring :
          /\ ring[k] = [class |-> ring[k].class, names |-> ring[k].names]
          /\ Active => ring[k].names = pool.id

OneStack ==
    /\ vm \in {"none", "loading", "loaded"} => mapped = {} /\ stack_start = 0
    /\ vm \in {"running", "resolving", "stopped"} => mapped = {stack_start}

\* The counter and the limit of the test mode.  Before the instruction that was
\* left for a constructor is executed again, it is counted already.
LimitOK ==
    /\ instrs_counter \in Nat /\ instrs_until_terminate \in Nat
    /\ executed \in Nat /\ asked \in Nat
    /\ goto \in {"NEXT", "AFTER"}
    /\ harness # "fixture" \/ vm \in {"none", "loading", "stopped"} => instrs_until_terminate = 0
    /\ instrs_until_terminate \in {0, asked}
    /\ vm = "running" /\ goto = "NEXT" => executed = instrs_counter /\ instrs_counter >= 1
    /\ vm = "running" /\ goto = "AFTER" =>
          \/ instrs_counter = 0 /\ executed = 0
          \/ instrs_counter = executed + 1
    /\ vm = "resolving" => instrs_counter = executed + 1
    /\ vm \in {"running", "resolving"} /\ harness = "fixture" =>
          /\ asked >= 1 /\ instrs_until_terminate = asked
          /\ instrs_counter <= asked
    /\ vm = "stopped" => harness = "fixture" /\ executed = asked

LifeInv == PhasesOK /\ OnePool /\ RingOK /\ OneStack /\ LimitOK

----------------------------------------------------------------------------
(* Sequences whose elements need not be of one kind. *)

LEMMA SequenceTyped ==
    ASSUME NEW s, IsSequence(s)
    PROVE  Len(s) \in Nat /\ DOMAIN s = 1 .. Len(s)
    BY DEF IsSequence

LEMMA AppendSequence ==
    ASSUME NEW s, IsSequence(s), NEW e
    PROVE  /\ IsSequence(Append(s, e))
           /\ Len(Append(s, e)) = Len(s) + 1
           /\ DOMAIN Append(s, e) = 1 .. Len(s) + 1
           /\ \A k \in DOMAIN s : Append(s, e)[k] = s[k]
           /\ Append(s, e)[Len(s) + 1] = e
    <1>1. PICK S : s \in Seq(S)
        BY DEF IsSequence
    <1>2. DEFINE T == S \cup {e}
    <1>3. s \in Seq(T) /\ e \in T
        BY <1>1
    <1> HIDE DEF T
    <1>4. Append(s, e) \in Seq(T)
        BY <1>3
    <1>5. /\ Len(Append(s, e)) = Len(s) + 1
          /\ \A k \in 1 .. Len(s) : Append(s, e)[k] = s[k]
          /\ Append(s, e)[Len(s) + 1] = e
        BY <1>3
    <1>6. DOMAIN s = 1 .. Len(s) /\ DOMAIN Append(s, e) = 1 .. Len(Append(s, e))
        BY <1>3, <1>4
    <1> QED
        BY <1>4, <1>5, <1>6 DEF IsSequence

LEMMA SingleSequence ==
    ASSUME NEW e
    PROVE  IsSequence(<<e>>) /\ Len(<<e>>) = 1 /\ DOMAIN <<e>> = {1} /\ <<e>>[1] = e
    <1>1. <<e>> \in Seq({e})
        OBVIOUS
    <1>2. IsSequence(<<e>>)
        BY <1>1 DEF IsSequence
    <1>3. Len(<<e>>) = 1 /\ <<e>>[1] = e
        OBVIOUS
    <1>4. DOMAIN <<e>> = 1 .. Len(<<e>>)
        BY <1>2, SequenceTyped
    <1>5. 1 .. 1 = {1}
        OBVIOUS
    <1> QED
        BY <1>2, <1>3, <1>4, <1>5

LEMMA EmptySequence ==
    IsSequence(<< >>) /\ Len(<< >>) = 0 /\ DOMAIN << >> = {}
    <1>1. << >> \in Seq({})
        OBVIOUS
    <1> QED
        BY <1>1 DEF IsSequence

\* An element of a sequence is replaced.
LEMMA ExceptSequence ==
    ASSUME NEW s, IsSequence(s), NEW t, DOMAIN t = DOMAIN s,
           t = [k \in DOMAIN s |-> t[k]]
    PROVE  IsSequence(t) /\ Len(t) = Len(s)
    <1>1. PICK n \in Nat : n = Len(s) /\ DOMAIN s = 1 .. n
        BY SequenceTyped
    <1>2. DEFINE T == {t[k] : k \in 1 .. n}
    <1>3. t \in [1 .. n -> T]
        BY <1>1
    <1> HIDE DEF T
    <1>4. t \in Seq(T)
        BY <1>3
    <1> QED
        BY <1>1, <1>3, <1>4 DEF IsSequence

\* A class of the ring is marked as initialized; nothing else of the ring changes.
Initialized(c) == [c EXCEPT !.static_initialized = TRUE]
Marked(classes, k) == [classes EXCEPT ![k].class.static_initialized = TRUE]

LEMMA MarkedRing ==
    ASSUME NEW s, IsSequence(s), NEW k \in DOMAIN s,
           \A j \in DOMAIN s : s[j] = [class |-> s[j].class, names |-> s[j].names],
           NEW t, t = Marked(s, k)
    PROVE  /\ IsSequence(t) /\ Len(t) = Len(s) /\ DOMAIN t = DOMAIN s
           /\ \A j \in DOMAIN t :
                 /\ t[j] = [class |-> t[j].class, names |-> t[j].names]
                 /\ t[j].names = s[j].names
                 /\ t[j].class = IF j = k THEN Initialized(s[k].class) ELSE s[j].class
    <1>1. DOMAIN t = DOMAIN s /\ t = [j \in DOMAIN s |-> t[j]]
        BY DEF Marked
    <1>2. ASSUME NEW j \in DOMAIN s, j # k
          PROVE  t[j] = s[j]
        BY <1>2 DEF Marked
    <1>3. t[k] = [s[k] EXCEPT !.class = Initialized(s[k].class)]
        BY DEF Marked, Initialized
    <1>4. /\ t[k] = [class |-> t[k].class, names |-> t[k].names]
          /\ t[k].names = s[k].names
          /\ t[k].class = Initialized(s[k].class)
        <2>1. s[k] = [class |-> s[k].class, names |-> s[k].names]
            OBVIOUS
        <2> QED
            BY <1>3, <2>1
    <1>5. IsSequence(t) /\ Len(t) = Len(s)
        BY <1>1, ExceptSequence
    <1> QED
        BY <1>1, <1>2, <1>4, <1>5

\* The code of method m is overwritten by that of another class.
WithForeign(c, m) == [c EXCEPT !.methods[m].c_attr = Foreign]

LEMMA OverwrittenRing ==
    ASSUME NEW s, IsSequence(s), NEW k, NEW m,
           \A j \in DOMAIN s : s[j] = [class |-> s[j].class, names |-> s[j].names],
           NEW t, t = Overwritten(s, k, m)
    PROVE  /\ IsSequence(t) /\ Len(t) = Len(s) /\ DOMAIN t = DOMAIN s
           /\ \A j \in DOMAIN t :
                 /\ t[j] = [class |-> t[j].class, names |-> t[j].names]
                 /\ t[j].names = s[j].names
                 /\ t[j].class = IF j = k THEN WithForeign(s[j].class, m) ELSE s[j].class
    <1>1. DOMAIN t = DOMAIN s /\ t = [j \in DOMAIN s |-> t[j]]
        BY DEF Overwritten
    <1>2. ASSUME NEW j \in DOMAIN s, j # k
          PROVE  t[j] = s[j]
        BY <1>2 DEF Overwritten
    <1>3. ASSUME k \in DOMAIN s
          PROVE  /\ t[k] = [class |-> t[k].class, names |-> t[k].names]
                 /\ t[k].names = s[k].names
                 /\ t[k].class = WithForeign(s[k].class, m)
        <2>1. t[k] = [s[k] EXCEPT !.class = WithForeign(s[k].class, m)]
            BY <1>3 DEF Overwritten, WithForeign
        <2>2. s[k] = [class |-> s[k].class, names |-> s[k].names]
            BY <1>3
        <2> QED
            BY <2>1, <2>2
    <1>4. IsSequence(t) /\ Len(t) = Len(s)
        BY <1>1, ExceptSequence
    <1> QED
        BY <1>1, <1>2, <1>3, <1>4

----------------------------------------------------------------------------
(* One program after another. *)

\* What a step of the parser does to its phase.
LEMMA ParseMoves ==
    ASSUME Parse
    PROVE  /\ at \in {"start", "reading", "signature"}
           /\ at' \in {"reading", "signature", "parsed", "exit", "unknown"}
           /\ at = "start" => at' # "signature" /\ at' # "parsed"
    BY DEF Parse, BadMagic, parse_file, SecondPart, parse_constant, parse_Utf8, WrongTag,
           ClassHead, parse_interfaces, parse_field, ThenMethods, parse_method,
           ScanSignature, ScanFails, MethodAttributes, ThenAttributes, WrongName,
           parse_ConstantValue_attribute, parse_Code_attribute, SkipAttribute,
           AttributesDone, Finish, At, Constant, Attribute, Fail, GoOn, fileVars

LEMMA InitLife == Init => LifeInv
    <1> SUFFICES ASSUME Init PROVE LifeInv
        OBVIOUS
    <1>1. PhasesOK
        BY DEF Init, InitFile, PhasesOK, Phases
    <1>2. OnePool
        BY DEF Init, InitFile, NoPool, OnePool, Active
    <1>3. RingOK
        BY EmptySequence DEF Init, RingOK, Active
    <1>4. OneStack /\ LimitOK
        BY DEF Init, OneStack, LimitOK
    <1> QED
        BY <1>1, <1>2, <1>3, <1>4 DEF LifeInv

LEMMA Successor ==
    ASSUME NEW n \in Nat
    PROVE  n + 1 \in Nat /\ n + 1 >= 1 /\ \A x \in 0 .. n : x \in 0 .. n + 1
    OBVIOUS

LEMMA ParseKeeps ==
    ASSUME LifeInv, NEW name, NEW who \in {"java", "fixture", "parse only"}, parse(name, who)
    PROVE  LifeInv'
    <1>1. /\ at' \in {"exit", "start"} /\ vm = "none" /\ vm' = "loading" /\ harness' = who
          /\ programs' = programs + 1
          /\ UNCHANGED <<ring, pool, natives, stack_start, mapped, instrs_counter,
                         instrs_until_terminate, goto, asked, executed>>
        BY DEF parse, load_class
    <1>2. PICK p \in Nat : p = programs
        BY DEF LifeInv, PhasesOK
    <1>3. p + 1 \in Nat /\ p + 1 >= 1
        BY Successor
    <1>8. ASSUME NEW x \in 0 .. p
          PROVE  x \in 0 .. p + 1
        BY Successor
    <1>4. PhasesOK'
        BY <1>1, <1>2, <1>3 DEF PhasesOK, Phases
    <1>5. OnePool'
        BY <1>1, <1>2, <1>8 DEF LifeInv, OnePool, Active
    <1>6. RingOK'
        BY <1>1 DEF LifeInv, RingOK, Active
    <1>7. OneStack' /\ LimitOK'
        BY <1>1 DEF LifeInv, OneStack, LimitOK
    <1> QED
        BY <1>4, <1>5, <1>6, <1>7 DEF LifeInv

LEMMA ParseStepKeeps ==
    ASSUME LifeInv, ParseStep
    PROVE  LifeInv'
    <1>1. /\ vm \in {"loading", "resolving"}
          /\ UNCHANGED <<vm, harness, natives, stack_start, mapped, instrs_counter,
                         instrs_until_terminate, goto, asked, executed, programs>>
          /\ ring' = ring \/ ring' = Overwritten(ring, last_method.class, last_method.method)
        BY DEF ParseStep
    <1>2. /\ at \in {"start", "reading", "signature"}
          /\ at' \in {"reading", "signature", "parsed", "exit", "unknown"}
          /\ at = "start" => at' # "signature" /\ at' # "parsed"
        BY ParseMoves DEF ParseStep
    <1>3. /\ pool' = [id |-> pool'.id, texts |-> pool'.texts]
          /\ pool'.id = IF at = "start" /\ at' # "exit" /\ pool.id = 0 THEN programs ELSE pool.id
        BY DEF ParseStep, LifeInv, OnePool, init_string_pool
    <1>4. PhasesOK'
        BY <1>1, <1>2 DEF LifeInv, PhasesOK
    <1>5. OnePool'
        <2>1. PICK p \in Nat : p = programs /\ p >= 1
            BY <1>1 DEF LifeInv, PhasesOK
        <2>2. pool.id \in 0 .. p /\ p \in 0 .. p /\ p # 0
            BY <2>1 DEF LifeInv, OnePool
        <2>3. pool'.id \in 0 .. programs'
            BY <1>1, <1>3, <2>1, <2>2
        <2>4. pool.id # 0 => pool'.id = pool.id
            BY <1>3
        <2>5. at' \in {"reading", "signature", "parsed"} => pool'.id # 0
            BY <1>2, <1>3, <2>1, <2>2 DEF LifeInv, OnePool
        <2> QED
            BY <1>1, <1>3, <2>3, <2>4, <2>5 DEF LifeInv, OnePool, Active
    <1>6. RingOK'
        <2>1. /\ IsSequence(ring)
              /\ \A j \in DOMAIN ring : ring[j] = [class |-> ring[j].class, names |-> ring[j].names]
            BY DEF LifeInv, RingOK
        <2>2. /\ IsSequence(ring') /\ Len(ring') = Len(ring) /\ DOMAIN ring' = DOMAIN ring
              /\ \A j \in DOMAIN ring' :
                    /\ ring'[j] = [class |-> ring'[j].class, names |-> ring'[j].names]
                    /\ ring'[j].names = ring[j].names
            BY <1>1, <2>1, OverwrittenRing
        <2>3. vm = "loading" => ring' = << >>
            <3>1. vm = "loading" => Len(ring') = 0
                BY <2>2, EmptySequence DEF LifeInv, RingOK
            <3>2. ASSUME Len(ring') = 0 PROVE ring' = << >>
                BY <2>2, <3>2 DEF IsSequence
            <3> QED
                BY <3>1, <3>2
        <2> QED
            BY <1>1, <1>3, <2>2, <2>3 DEF LifeInv, RingOK, OnePool, Active
    <1>7. OneStack' /\ LimitOK'
        BY <1>1 DEF LifeInv, OneStack, LimitOK
    <1> QED
        BY <1>4, <1>5, <1>6, <1>7 DEF LifeInv

LEMMA LoadedKeeps ==
    ASSUME LifeInv, Loaded
    PROVE  LifeInv'
    <1>1. /\ vm = "loading" /\ vm' = "loaded" /\ at = "parsed" /\ at' = "idle"
          /\ ring' = <<New_c>>
          /\ UNCHANGED <<harness, pool, natives, stack_start, mapped, instrs_counter,
                         instrs_until_terminate, goto, asked, executed, programs>>
        BY DEF Loaded, Deliver
    <1>2. PhasesOK'
        BY <1>1 DEF LifeInv, PhasesOK, Phases
    <1>3. OnePool'
        BY <1>1 DEF LifeInv, OnePool, Active
    <1>4. RingOK'
        <2>1. IsSequence(ring') /\ Len(ring') = 1 /\ DOMAIN ring' = {1} /\ ring'[1] = New_c
            BY <1>1, SingleSequence
        <2>2. New_c = [class |-> New_c.class, names |-> New_c.names] /\ New_c.names = pool.id
            BY DEF New_c
        <2> QED
            BY <1>1, <2>1, <2>2 DEF RingOK, Active
    <1>5. OneStack' /\ LimitOK'
        BY <1>1 DEF LifeInv, OneStack, LimitOK
    <1> QED
        BY <1>2, <1>3, <1>4, <1>5 DEF LifeInv

\* Exits and NoMain.
LEMMA ExitKeeps ==
    ASSUME LifeInv, Exits \/ NoMain
    PROVE  LifeInv'
    <1>1. /\ vm # "none" /\ vm' = "exited" /\ at' = at
          /\ UNCHANGED <<harness, ring, pool, natives, stack_start, mapped, instrs_counter,
                         instrs_until_terminate, goto, asked, executed, programs>>
        BY DEF Exits, NoMain, LifeInv, PhasesOK, fileVars
    <1>2. PhasesOK'
        BY <1>1 DEF LifeInv, PhasesOK, Phases
    <1>3. OnePool' /\ RingOK'
        BY <1>1 DEF LifeInv, OnePool, RingOK, Active
    <1>4. OneStack' /\ LimitOK'
        BY <1>1 DEF LifeInv, OneStack, LimitOK
    <1> QED
        BY <1>2, <1>3, <1>4 DEF LifeInv

LEMMA AskKeeps ==
    ASSUME LifeInv, NEW n \in 1 .. MaxInstrs, Ask(n)
    PROVE  LifeInv'
    <1>1. /\ vm = "loaded" /\ harness = "fixture"
          /\ instrs_until_terminate' = n /\ asked' = n
          /\ UNCHANGED <<at, vm, harness, ring, pool, natives, stack_start, mapped,
                         instrs_counter, goto, executed, programs>>
        BY DEF Ask, fileVars
    <1>2. n \in Nat
        BY LifecycleAssumption
    <1>3. PhasesOK' /\ OnePool' /\ RingOK' /\ OneStack'
        BY <1>1 DEF LifeInv, PhasesOK, OnePool, RingOK, OneStack, Active
    <1>4. LimitOK'
        BY <1>1, <1>2 DEF LifeInv, LimitOK
    <1> QED
        BY <1>3, <1>4 DEF LifeInv

LEMMA RunKeeps ==
    ASSUME LifeInv, run
    PROVE  LifeInv'
    <1>1. /\ vm = "loaded" /\ vm' = "running" /\ Asked /\ harness # "parse only"
          /\ stack_start' = programs /\ mapped' = mapped \cup {programs}
          /\ natives' = pool.id
          /\ pool' = [pool EXCEPT !.texts = @ \cup {"println"}]
          /\ instrs_counter' = 0 /\ goto' = "AFTER" /\ executed' = 0
          /\ ring' = [ring EXCEPT ![1].class.static_initialized = TRUE]
          /\ UNCHANGED <<at, harness, instrs_until_terminate, asked, programs>>
        BY DEF run, init_natives, fileVars
    <1>2. PhasesOK'
        BY <1>1 DEF LifeInv, PhasesOK, Phases
    <1>3. pool' = [id |-> pool'.id, texts |-> pool'.texts] /\ pool'.id = pool.id
        BY <1>1 DEF LifeInv, OnePool
    <1>4. OnePool'
        BY <1>1, <1>3 DEF LifeInv, OnePool, PhasesOK, Active
    <1>5. RingOK'
        <2>1. /\ IsSequence(ring) /\ Len(ring) >= 1
              /\ \A j \in DOMAIN ring : /\ ring[j] = [class |-> ring[j].class, names |-> ring[j].names]
                                        /\ ring[j].names = pool.id
            BY <1>1 DEF LifeInv, RingOK, Active
        <2>2. 1 \in DOMAIN ring
            BY <2>1, SequenceTyped
        <2>3. /\ IsSequence(ring') /\ Len(ring') = Len(ring) /\ DOMAIN ring' = DOMAIN ring
              /\ \A j \in DOMAIN ring' :
                    /\ ring'[j] = [class |-> ring'[j].class, names |-> ring'[j].names]
                    /\ ring'[j].names = ring[j].names
            <3>1. ring' = Marked(ring, 1)
                BY <1>1 DEF Marked
            <3> QED
                BY <2>1, <2>2, <3>1, MarkedRing
        <2> QED
            BY <1>1, <1>3, <2>1, <2>3 DEF RingOK
    <1>6. OneStack'
        BY <1>1 DEF LifeInv, OneStack
    <1>7. LimitOK'
        <2>1. /\ harness # "fixture" => instrs_until_terminate = 0
              /\ harness = "fixture" => instrs_until_terminate # 0
              /\ instrs_until_terminate \in {0, asked}
            BY <1>1 DEF LifeInv, LimitOK, Asked
        <2>2. PICK a \in Nat : a = asked
            BY DEF LifeInv, LimitOK
        <2>3. harness = "fixture" => a >= 1 /\ instrs_until_terminate = a
            BY <2>1, <2>2
        <2>4. instrs_until_terminate \in Nat /\ 0 <= a
            BY <2>2 DEF LifeInv, LimitOK
        <2> QED
            BY <1>1, <2>1, <2>2, <2>3, <2>4 DEF LimitOK
    <1> QED
        BY <1>2, <1>4, <1>5, <1>6, <1>7 DEF LifeInv

\* An instruction changes the ring as Initializes does, or not, and it may be
\* the one that a class was loaded for.
LEMMA DispatchCounts ==
    ASSUME LifeInv, Dispatch
    PROVE  /\ vm = "running" /\ at = "idle"
           /\ instrs_counter' = executed + 1
           /\ harness = "fixture" => instrs_counter' <= asked
    <1>1. PICK c \in Nat, e \in Nat, a \in Nat, u \in Nat :
              c = instrs_counter /\ e = executed /\ a = asked /\ u = instrs_until_terminate
        BY DEF LifeInv, LimitOK
    <1>2. /\ vm = "running" /\ at = "idle" /\ ~ TimeToStop
          /\ instrs_counter' = IF Counts THEN c + 1 ELSE c
        BY <1>1 DEF Dispatch
    <1>3. goto \in {"NEXT", "AFTER"}
          /\ (goto = "NEXT" => e = c /\ c >= 1)
          /\ (goto = "AFTER" => (c = 0 /\ e = 0) \/ c = e + 1)
          /\ (harness = "fixture" => a >= 1 /\ u = a /\ c <= a)
        BY <1>1, <1>2 DEF LifeInv, LimitOK
    <1>4. CASE goto = "NEXT"
        <2>1. Counts /\ c # u
            BY <1>1, <1>2, <1>3, <1>4 DEF TimeToStop, Counts
        <2>2. instrs_counter' = e + 1 /\ (harness = "fixture" => c + 1 <= a)
            BY <1>2, <1>3, <1>4, <2>1
        <2> QED
            BY <1>1, <1>2, <1>3, <1>4, <2>1, <2>2
    <1>5. CASE goto = "AFTER"
        <2>1. Counts <=> c = 0
            BY <1>1, <1>5 DEF Counts
        <2>2. instrs_counter' = e + 1
            BY <1>2, <1>3, <1>5, <2>1
        <2>3. harness = "fixture" => instrs_counter' <= a
            BY <1>2, <1>3, <1>5, <2>1
        <2> QED
            BY <1>1, <1>2, <2>2, <2>3
    <1> QED
        BY <1>3, <1>4, <1>5

\* What Ordinary and InitializeClass share, and Linked behind another phase.
Resumes ==
    /\ vm' = "running" /\ at' = "idle"
    /\ vm \in {"running", "resolving"}
    /\ UNCHANGED <<harness, pool, natives, stack_start, mapped, instrs_until_terminate, asked,
                   programs>>
    /\ instrs_counter' = executed + 1
    /\ harness = "fixture" => instrs_counter' <= asked
    /\ \/ executed' = executed + 1 /\ goto' = "NEXT"
       \/ executed' = executed /\ goto' = "AFTER"
    /\ IsSequence(ring') /\ Len(ring') >= 1
    /\ \A k \in DOMAIN ring' :
          /\ ring'[k] = [class |-> ring'[k].class, names |-> ring'[k].names]
          /\ ring'[k].names = pool.id

LEMMA ResumesKeeps ==
    ASSUME LifeInv, Resumes
    PROVE  LifeInv'
    <1>1. PhasesOK' /\ OnePool' /\ OneStack'
        BY DEF LifeInv, Resumes, PhasesOK, OnePool, OneStack, Active, Phases
    <1>2. RingOK'
        BY DEF Resumes, RingOK, Active
    <1>3. LimitOK'
        <2>1. PICK e \in Nat, a \in Nat, u \in Nat :
                  e = executed /\ a = asked /\ u = instrs_until_terminate
            BY DEF LifeInv, LimitOK
        <2>2. /\ instrs_counter' = e + 1 /\ asked' = a /\ instrs_until_terminate' = u
              /\ harness' = harness /\ vm' = "running" /\ vm \in {"running", "resolving"}
              /\ \/ executed' = e + 1 /\ goto' = "NEXT"
                 \/ executed' = e /\ goto' = "AFTER"
              /\ harness = "fixture" => e + 1 <= a
            BY <2>1 DEF Resumes
        <2>3. /\ harness # "fixture" => u = 0
              /\ u \in {0, a}
              /\ harness = "fixture" => a >= 1 /\ u = a
            BY <2>1, <2>2 DEF LifeInv, LimitOK
        <2>4. e + 1 \in Nat /\ e + 1 >= 1
            BY <2>1
        <2> QED
            BY <2>2, <2>3, <2>4 DEF LimitOK
    <1> QED
        BY <1>1, <1>2, <1>3 DEF LifeInv

LEMMA OrdinaryKeeps ==
    ASSUME LifeInv, Ordinary
    PROVE  LifeInv'
    <1>1. /\ vm = "running" /\ at = "idle" /\ instrs_counter' = executed + 1
          /\ harness = "fixture" => instrs_counter' <= asked
        BY DispatchCounts DEF Ordinary
    <1>2. Resumes
        BY <1>1 DEF Ordinary, Resume, Completes, Resumes, fileVars, LifeInv, RingOK, Active
    <1> QED
        BY <1>2, ResumesKeeps

LEMMA InitializeClassKeeps ==
    ASSUME LifeInv, NEW k \in DOMAIN ring, InitializeClass(k)
    PROVE  LifeInv'
    <1>1. /\ vm = "running" /\ at = "idle" /\ instrs_counter' = executed + 1
          /\ harness = "fixture" => instrs_counter' <= asked
        BY DispatchCounts DEF InitializeClass
    <1>2. /\ IsSequence(ring) /\ Len(ring) >= 1
          /\ \A j \in DOMAIN ring : /\ ring[j] = [class |-> ring[j].class, names |-> ring[j].names]
                                    /\ ring[j].names = pool.id
        BY <1>1 DEF LifeInv, RingOK, Active
    <1>3. /\ IsSequence(ring') /\ Len(ring') = Len(ring) /\ DOMAIN ring' = DOMAIN ring
          /\ \A j \in DOMAIN ring' :
                /\ ring'[j] = [class |-> ring'[j].class, names |-> ring'[j].names]
                /\ ring'[j].names = ring[j].names
        <2>1. ring' = Marked(ring, k)
            BY DEF InitializeClass, Initializes, Marked
        <2> QED
            BY <1>2, <2>1, MarkedRing
    <1>4. Resumes
        BY <1>1, <1>2, <1>3 DEF InitializeClass, Initializes, Resume, Resumes, fileVars
    <1> QED
        BY <1>4, ResumesKeeps

LEMMA LoadsClassKeeps ==
    ASSUME LifeInv, NEW name, LoadsClass(name)
    PROVE  LifeInv'
    <1>1. /\ vm = "running" /\ instrs_counter' = executed + 1
          /\ harness = "fixture" => instrs_counter' <= asked
        BY DispatchCounts DEF LoadsClass
    <1>2. /\ at' \in {"exit", "start"} /\ vm' = "resolving"
          /\ UNCHANGED <<harness, ring, pool, natives, stack_start, mapped,
                         instrs_until_terminate, goto, asked, executed, programs>>
        BY DEF LoadsClass, load_class
    <1>3. PhasesOK' /\ OnePool' /\ RingOK' /\ OneStack'
        BY <1>1, <1>2 DEF LifeInv, PhasesOK, OnePool, RingOK, OneStack, Active, Phases
    <1>4. LimitOK'
        <2>1. PICK e \in Nat : e = executed /\ e + 1 \in Nat
            BY DEF LifeInv, LimitOK
        <2> QED
            BY <1>1, <1>2, <2>1 DEF LifeInv, LimitOK
    <1> QED
        BY <1>3, <1>4 DEF LifeInv

LEMMA LinkedKeeps ==
    ASSUME LifeInv, Linked
    PROVE  LifeInv'
    <1> DEFINE with == Append(ring, New_c)
    <1>1. /\ vm = "resolving" /\ at = "parsed" /\ at' = "idle"
          /\ instrs_counter' = instrs_counter
        BY DEF Linked, Deliver
    <1>2. /\ IsSequence(ring) /\ Len(ring) >= 1
          /\ \A j \in DOMAIN ring : /\ ring[j] = [class |-> ring[j].class, names |-> ring[j].names]
                                    /\ ring[j].names = pool.id
        BY <1>1 DEF LifeInv, RingOK, Active
    <1>3. New_c = [class |-> New_c.class, names |-> New_c.names] /\ New_c.names = pool.id
        BY DEF New_c
    <1>4. /\ IsSequence(with) /\ Len(with) = Len(ring) + 1 /\ Len(ring) + 1 \in DOMAIN with
          /\ \A j \in DOMAIN with : /\ with[j] = [class |-> with[j].class, names |-> with[j].names]
                                    /\ with[j].names = pool.id
        <2>1. PICK n \in Nat : n = Len(ring) /\ DOMAIN ring = 1 .. n
            BY <1>2, SequenceTyped
        <2>2. /\ IsSequence(with) /\ Len(with) = n + 1 /\ DOMAIN with = 1 .. n + 1
              /\ \A k \in DOMAIN ring : with[k] = ring[k]
              /\ with[n + 1] = New_c
            BY <1>2, <2>1, AppendSequence
        <2> HIDE DEF with
        <2>3. \A j \in 1 .. n + 1 : j \in 1 .. n \/ j = n + 1
            BY <2>1
        <2>4. n + 1 \in 1 .. n + 1
            BY <2>1
        <2> QED
            BY <1>2, <1>3, <2>1, <2>2, <2>3, <2>4
    <1>5. PICK n \in Nat : n = Len(with) /\ n >= 1 /\ n = Len(ring) + 1
        <2>1. Len(ring) \in Nat
            BY <1>2, SequenceTyped
        <2> QED
            BY <1>4, <2>1
    <1>6. /\ instrs_counter' = executed + 1
          /\ harness = "fixture" => instrs_counter' <= asked
        BY <1>1 DEF LifeInv, LimitOK
    <1>7. CASE ring' = with /\ Completes
        <2> HIDE DEF with
        <2> QED
            BY <1>1, <1>4, <1>5, <1>6, <1>7, ResumesKeeps DEF Linked, Resume, Completes, Resumes
    <1>8. CASE Initializes(with, n)
        <2> HIDE DEF with
        <2>1. /\ IsSequence(ring') /\ Len(ring') = Len(with) /\ DOMAIN ring' = DOMAIN with
              /\ \A j \in DOMAIN ring' :
                    /\ ring'[j] = [class |-> ring'[j].class, names |-> ring'[j].names]
                    /\ ring'[j].names = with[j].names
            <3>1. ring' = Marked(with, n) /\ n \in DOMAIN with
                BY <1>4, <1>5, <1>8 DEF Initializes, Marked
            <3> QED
                BY <1>4, <3>1, MarkedRing
        <2>2. Resumes
            BY <1>1, <1>4, <1>5, <1>6, <1>8, <2>1 DEF Linked, Initializes, Resume, Resumes
        <2> QED
            BY <2>2, ResumesKeeps
    <1> QED
        BY <1>5, <1>7, <1>8 DEF Linked

LEMMA StopKeeps ==
    ASSUME LifeInv, Stop
    PROVE  LifeInv'
    <1>1. /\ vm = "running" /\ at = "idle" /\ at' = at /\ TimeToStop /\ vm' = "stopped"
          /\ instrs_until_terminate' = 0 /\ instrs_counter' = 0
          /\ UNCHANGED <<harness, ring, pool, natives, stack_start, mapped, goto, asked,
                         executed, programs>>
        BY DEF Stop, ForgetLimit, fileVars
    <1>2. PhasesOK' /\ OnePool' /\ RingOK' /\ OneStack'
        BY <1>1 DEF LifeInv, PhasesOK, OnePool, RingOK, OneStack, Active, Phases
    <1>3. LimitOK'
        <2>1. Counts /\ instrs_counter # 0 /\ instrs_counter = instrs_until_terminate
            BY <1>1 DEF TimeToStop
        <2>2. goto = "NEXT" /\ executed = instrs_counter
            BY <1>1, <2>1 DEF LifeInv, LimitOK, Counts
        <2>3. harness = "fixture" /\ instrs_until_terminate = asked
            BY <1>1, <2>1 DEF LifeInv, LimitOK
        <2> QED
            BY <1>1, <2>1, <2>2, <2>3 DEF LifeInv, LimitOK
    <1> QED
        BY <1>2, <1>3 DEF LifeInv

LEMMA EndKeeps ==
    ASSUME LifeInv, impdep1 \/ TearDown
    PROVE  LifeInv'
    <1>1. /\ vm \in {"running", "stopped"} /\ vm' = "none" /\ at' = at
          /\ mapped' = mapped \ {stack_start} /\ stack_start' = 0
          /\ ring' = << >> /\ pool' = NoPool
          /\ UNCHANGED <<harness, natives, instrs_until_terminate, goto, asked, programs>>
        BY DEF impdep1, TearDown, Dispatch, free_vm, Release
    <1>2. PhasesOK'
        BY <1>1 DEF LifeInv, PhasesOK, Phases
    <1>3. OnePool'
        <2>1. programs \in Nat /\ at = "idle"
            BY <1>1 DEF LifeInv, PhasesOK
        <2>2. 0 \in 0 .. programs
            BY <2>1
        <2> QED
            BY <1>1, <2>1, <2>2 DEF LifeInv, OnePool, Active, NoPool
    <1>4. RingOK' /\ OneStack'
        BY <1>1, EmptySequence DEF LifeInv, RingOK, OneStack, Active
    <1>5. instrs_until_terminate = 0
        BY <1>1 DEF impdep1, TearDown, LifeInv, LimitOK
    <1>6. instrs_counter' \in Nat /\ executed' \in Nat
        <2>1. PICK e \in Nat : e = executed
            BY DEF LifeInv, LimitOK
        <2>2. e + 1 \in Nat
            BY Successor
        <2>3. CASE impdep1
            <3>1. instrs_counter' = e + 1 /\ executed' = e + 1
                BY <2>1, <2>3, DispatchCounts DEF impdep1
            <3> QED
                BY <2>2, <3>1
        <2>4. CASE TearDown
            BY <2>4 DEF TearDown, LifeInv, LimitOK
        <2> QED
            BY <2>3, <2>4
    <1>7. LimitOK'
        BY <1>1, <1>5, <1>6 DEF LifeInv, LimitOK
    <1> QED
        BY <1>2, <1>3, <1>4, <1>7 DEF LifeInv

LEMMA FreeClassKeeps ==
    ASSUME LifeInv, free_class
    PROVE  LifeInv'
    <1>1. /\ vm = "loaded" /\ vm' = "none" /\ at' = at /\ harness = "parse only"
          /\ ring' = << >>
          /\ UNCHANGED <<harness, pool, natives, stack_start, mapped, instrs_counter,
                         instrs_until_terminate, goto, asked, executed, programs>>
        BY DEF free_class, Release
    <1>2. PhasesOK' /\ OnePool' /\ OneStack'
        BY <1>1 DEF LifeInv, PhasesOK, OnePool, OneStack, Active, Phases
    <1>3. RingOK' /\ LimitOK'
        BY <1>1, EmptySequence DEF LifeInv, RingOK, LimitOK, Active
    <1> QED
        BY <1>2, <1>3 DEF LifeInv

LEMMA LifeStep == LifeInv /\ [Next]_vars => LifeInv'
    <1> SUFFICES ASSUME LifeInv, [Next]_vars PROVE LifeInv'
        OBVIOUS
    <1>1. CASE \E name \in ClassNames : \E who \in {"java", "fixture", "parse only"} : parse(name, who)
        BY <1>1, ParseKeeps
    <1>2. CASE \E name \in ClassNames : LoadsClass(name)
        BY <1>2, LoadsClassKeeps
    <1>3. CASE ParseStep \/ Loaded \/ Exits \/ NoMain
        BY <1>3, ParseStepKeeps, LoadedKeeps, ExitKeeps
    <1>4. CASE \E n \in 1 .. MaxInstrs : Ask(n)
        BY <1>4, AskKeeps
    <1>5. CASE run \/ Ordinary \/ Linked \/ Stop
        BY <1>5, RunKeeps, OrdinaryKeeps, LinkedKeeps, StopKeeps
    <1>6. CASE \E k \in DOMAIN ring : InitializeClass(k)
        BY <1>6, InitializeClassKeeps
    <1>7. CASE impdep1 \/ TearDown \/ free_class
        BY <1>7, EndKeeps, FreeClassKeeps
    <1>8. CASE UNCHANGED vars
        <2>1. UNCHANGED lifeVars /\ at' = at
            BY <1>8 DEF vars, fileVars
        <2>2. PhasesOK' /\ OnePool'
            BY <2>1 DEF lifeVars, LifeInv, PhasesOK, OnePool, Active
        <2>3. RingOK' /\ OneStack'
            BY <2>1 DEF lifeVars, LifeInv, RingOK, OneStack, Active
        <2>4. LimitOK'
            BY <2>1 DEF lifeVars, LifeInv, LimitOK
        <2> QED
            BY <2>2, <2>3, <2>4 DEF LifeInv
    <1>9. Ended => UNCHANGED vars
        BY DEF Ended
    <1> QED
        BY <1>1, <1>2, <1>3, <1>4, <1>5, <1>6, <1>7, <1>8, <1>9 DEF Next

LEMMA LifeAlways == Spec => []LifeInv
    BY InitLife, LifeStep, PTL DEF Spec

\* All names that a running program compares by address come from the string
\* pool that is there, whichever program filled it before: classes loaded in the
\* middle of an instruction included.
THEOREM NamesFromOnePool == Spec => []NamesComparable
    <1>1. LifeInv => NamesComparable
        BY DEF LifeInv, OnePool, RingOK, NamesComparable
    <1> QED
        BY <1>1, LifeAlways, PTL

\* No class and no block of the stack is left to the next program, and a program
\* that runs is the only one with a stack.
THEOREM ReleasedBetween == Spec => []NothingLeftOver
    <1>1. LifeInv => NothingLeftOver
        BY DEF LifeInv, RingOK, OneStack, NothingLeftOver
    <1> QED
        BY <1>1, LifeAlways, PTL

\* A test finds the machine after exactly the instructions that it asked for,
\* whatever classes were loaded and constructors were started on the way.
THEOREM StoppedInTime == Spec => []StopsAfterAsked
    <1>1. LifeInv => StopsAfterAsked
        <2> SUFFICES ASSUME LifeInv PROVE StopsAfterAsked
            OBVIOUS
        <2>1. vm = "stopped" => harness = "fixture" /\ executed = asked
            BY DEF LifeInv, LimitOK
        <2>2. ASSUME vm = "running", harness = "fixture"
              PROVE  executed <= asked
            <3>1. PICK c \in Nat, e \in Nat, a \in Nat :
                      c = instrs_counter /\ e = executed /\ a = asked
                BY DEF LifeInv, LimitOK
            <3>2. /\ c <= a
                  /\ goto = "NEXT" => e = c
                  /\ goto = "AFTER" => (c = 0 /\ e = 0) \/ c = e + 1
                  /\ goto \in {"NEXT", "AFTER"}
                BY <2>2, <3>1 DEF LifeInv, LimitOK
            <3> QED
                BY <3>1, <3>2
        <2> QED
            BY <2>1, <2>2 DEF StopsAfterAsked
    <1> QED
        BY <1>1, LifeAlways, PTL

----------------------------------------------------------------------------
(* The numbers that are read. *)

LEMMA WeightTyped == \A k \in 0 .. 4 : Weight[k] \in Nat \ {0}
    <1> DEFINE Q(f) == f = [k \in 0 .. u4 |-> IF k = 0 THEN 1 ELSE f[k - 1] * ByteValues]
    <1>1. PICK b \in Nat \ {0} : b = ByteValues
        BY FileAssumption
    <1>2. \E f : Q(f)
        <2> DEFINE g == [k \in 0 .. 4 |-> IF k = 0 THEN 1 ELSE IF k = 1 THEN b
                                          ELSE IF k = 2 THEN b * b
                                          ELSE IF k = 3 THEN b * b * b ELSE b * b * b * b]
        <2>1. ASSUME NEW k \in 0 .. 4
              PROVE  g[k] = IF k = 0 THEN 1 ELSE g[k - 1] * b
            <3>1. k = 0 \/ k = 1 \/ k = 2 \/ k = 3 \/ k = 4
                OBVIOUS
            <3>2. g[0] = 1 /\ g[1] = b /\ g[2] = b * b /\ g[3] = b * b * b /\ g[4] = b * b * b * b
                OBVIOUS
            <3>3. 1 * b = b
                OBVIOUS
            <3> HIDE DEF g
            <3> QED
                BY <3>1, <3>2, <3>3
        <2>2. g = [k \in 0 .. 4 |-> g[k]]
            OBVIOUS
        <2> HIDE DEF g
        <2>3. g = [k \in 0 .. 4 |-> IF k = 0 THEN 1 ELSE g[k - 1] * b]
            BY <2>1, <2>2
        <2> QED
            BY <1>1, <2>3 DEF u4
    <1>3. Weight = CHOOSE f : Q(f)
        BY DEF Weight
    <1> HIDE DEF Q
    <1>4. Q(Weight)
        BY <1>2, <1>3
    <1>5. Weight = [k \in 0 .. 4 |-> IF k = 0 THEN 1 ELSE Weight[k - 1] * b]
        BY <1>1, <1>4 DEF Q, u4
    <1>6. /\ Weight[0] = 1 /\ Weight[1] = Weight[0] * b /\ Weight[2] = Weight[1] * b
          /\ Weight[3] = Weight[2] * b /\ Weight[4] = Weight[3] * b
        BY <1>5
    <1>7. \A x \in Nat \ {0} : x * b \in Nat \ {0}
        OBVIOUS
    <1>8. 1 \in Nat \ {0}
        OBVIOUS
    <1>9. /\ Weight[0] \in Nat \ {0} /\ Weight[1] \in Nat \ {0} /\ Weight[2] \in Nat \ {0}
          /\ Weight[3] \in Nat \ {0} /\ Weight[4] \in Nat \ {0}
        BY <1>6, <1>7, <1>8
    <1>10. \A k \in 0 .. 4 : k = 0 \/ k = 1 \/ k = 2 \/ k = 3 \/ k = 4
        OBVIOUS
    <1> QED
        BY <1>9, <1>10

\* The bytes of a file are numbers, and so is what fread leaves behind its end.
LEMMA ByteTyped ==
    ASSUME stream \in Seq(Nat), NEW p
    PROVE  ByteAt(p) \in Nat
    BY DEF ByteAt

\* At most four digits, the next one behind c times the ones before.
Digits(g, n, c, d) ==
    /\ g = [k \in 0 .. n |-> g[k]]
    /\ \A k \in 0 .. n : g[k] = IF k = 0 THEN 0 ELSE g[k - 1] * c + d[k]

LEMMA DigitsExist ==
    ASSUME NEW n \in 0 .. 4, NEW c \in Nat, NEW d \in [1 .. 4 -> Nat]
    PROVE  \E g : Digits(g, n, c, d)
    <1>1. PICK a1 \in Nat, a2 \in Nat, a3 \in Nat, a4 \in Nat :
              d[1] = a1 /\ d[2] = a2 /\ d[3] = a3 /\ d[4] = a4
        OBVIOUS
    <1>2. PICK s1 \in Nat : s1 = 0 * c + a1
        OBVIOUS
    <1>3. PICK s2 \in Nat : s2 = s1 * c + a2
        OBVIOUS
    <1>4. PICK s3 \in Nat : s3 = s2 * c + a3
        OBVIOUS
    <1>5. PICK s4 \in Nat : s4 = s3 * c + a4
        OBVIOUS
    <1> DEFINE g == [k \in 0 .. n |-> IF k = 0 THEN 0 ELSE IF k = 1 THEN s1
                                      ELSE IF k = 2 THEN s2 ELSE IF k = 3 THEN s3 ELSE s4]
    <1>6. ASSUME NEW k \in 0 .. n
          PROVE  g[k] = IF k = 0 THEN 0 ELSE g[k - 1] * c + d[k]
        <2>1. k = 0 \/ k = 1 \/ k = 2 \/ k = 3 \/ k = 4
            OBVIOUS
        <2>2. k # 0 => k - 1 \in 0 .. n
            OBVIOUS
        <2>3. g[k] = IF k = 0 THEN 0 ELSE IF k = 1 THEN s1
                     ELSE IF k = 2 THEN s2 ELSE IF k = 3 THEN s3 ELSE s4
            OBVIOUS
        <2>4. k # 0 => g[k - 1] = IF k - 1 = 0 THEN 0 ELSE IF k - 1 = 1 THEN s1
                                  ELSE IF k - 1 = 2 THEN s2 ELSE IF k - 1 = 3 THEN s3 ELSE s4
            BY <2>2
        <2> HIDE DEF g
        <2> QED
            BY <2>1, <2>3, <2>4, <1>1, <1>2, <1>3, <1>4, <1>5
    <1>7. g = [k \in 0 .. n |-> g[k]]
        OBVIOUS
    <1> HIDE DEF g
    <1> QED
        BY <1>6, <1>7 DEF Digits

LEMMA DigitsTyped ==
    ASSUME NEW n \in 0 .. 4, NEW c \in Nat, NEW d \in [1 .. 4 -> Nat], NEW f, Digits(f, n, c, d)
    PROVE  f[n] \in Nat
    <1>1. d[1] \in Nat /\ d[2] \in Nat /\ d[3] \in Nat /\ d[4] \in Nat
        OBVIOUS
    <1>2. n = 0 \/ n = 1 \/ n = 2 \/ n = 3 \/ n = 4
        OBVIOUS
    <1>6. \A k \in 0 .. n : f[k] = IF k = 0 THEN 0 ELSE f[k - 1] * c + d[k]
        BY DEF Digits
    <1>3. /\ f[0] = 0
          /\ n >= 1 => f[1] = f[0] * c + d[1]
          /\ n >= 2 => f[2] = f[1] * c + d[2]
          /\ n >= 3 => f[3] = f[2] * c + d[3]
          /\ n >= 4 => f[4] = f[3] * c + d[4]
        <2>1. \A k \in 1 .. n : f[k] = f[k - 1] * c + d[k]
            BY <1>6
        <2>2. /\ 0 \in 0 .. n /\ (n >= 1 => 1 \in 1 .. n) /\ (n >= 2 => 2 \in 1 .. n)
              /\ (n >= 3 => 3 \in 1 .. n) /\ (n >= 4 => 4 \in 1 .. n)
              /\ 1 - 1 = 0 /\ 2 - 1 = 1 /\ 3 - 1 = 2 /\ 4 - 1 = 3
            OBVIOUS
        <2>3. f[0] = 0
            BY <1>6, <2>2
        <2> HIDE <1>6
        <2> QED
            BY <2>1, <2>2, <2>3, Zenon
    <1>4. \A x, y \in Nat : x * c + y \in Nat
        OBVIOUS
    <1>5. /\ f[0] \in Nat /\ (n >= 1 => f[1] \in Nat) /\ (n >= 2 => f[2] \in Nat)
          /\ (n >= 3 => f[3] \in Nat) /\ (n >= 4 => f[4] \in Nat)
        BY <1>1, <1>2, <1>3, <1>4
    <1> QED
        BY <1>2, <1>5

LEMMA FreadTyped ==
    ASSUME stream \in Seq(Nat), NEW p, NEW n \in 0 .. 4
    PROVE  fread(p, n) \in Nat
    <1> DEFINE Q(f) == f = [k \in 0 .. n |->
                               IF k = 0 THEN 0 ELSE f[k - 1] * ByteValues + ByteAt(p + n - k)]
               d == [k \in 1 .. 4 |-> ByteAt(p + n - k)]
               f == CHOOSE h : Q(h)
    <1>1. d \in [1 .. 4 -> Nat]
        BY ByteTyped
    <1>2. \A k \in 0 .. n : k # 0 => d[k] = ByteAt(p + n - k)
        OBVIOUS
    <1>3. fread(p, n) = f[n]
        BY DEF fread
    <1>4. ByteValues \in Nat
        BY FileAssumption
    <1> HIDE DEF d
    <1>5. PICK g : Digits(g, n, ByteValues, d)
        BY <1>1, <1>4, DigitsExist
    <1>6. Q(g)
        BY <1>2, <1>5 DEF Digits
    <1> HIDE DEF Q
    <1>7. Q(f)
        BY <1>6
    <1> HIDE DEF f
    <1>8. Digits(f, n, ByteValues, d)
        BY <1>2, <1>7 DEF Q, Digits
    <1> QED
        BY <1>1, <1>3, <1>4, <1>8, DigitsTyped

LEMMA BswapTyped ==
    ASSUME NEW v \in Nat, NEW n \in 0 .. 4
    PROVE  bswap(n, v) \in Nat
    <1> DEFINE Digit(k) == (v \div Weight[k - 1]) % ByteValues
               Q(f) == f = [k \in 0 .. n |->
                               IF k = 0 THEN 0 ELSE f[k - 1] * ByteValues + Digit(k)]
               d == [k \in 1 .. 4 |-> Digit(k)]
               f == CHOOSE h : Q(h)
    <1>1. d \in [1 .. 4 -> Nat]
        <2> SUFFICES ASSUME NEW k \in 1 .. 4 PROVE (v \div Weight[k - 1]) % ByteValues \in Nat
            OBVIOUS
        <2>1. PICK w \in Nat \ {0} : w = Weight[k - 1]
            <3>1. k - 1 \in 0 .. 4
                OBVIOUS
            <3> QED
                BY <3>1, WeightTyped
        <2>2. PICK b \in Nat \ {0} : b = ByteValues
            BY FileAssumption
        <2> QED
            BY <2>1, <2>2
    <1>2. \A k \in 0 .. n : k # 0 => d[k] = Digit(k)
        OBVIOUS
    <1>3. bswap(n, v) = f[n]
        BY DEF bswap
    <1>4. ByteValues \in Nat
        BY FileAssumption
    <1> HIDE DEF d, Digit
    <1>5. PICK g : Digits(g, n, ByteValues, d)
        BY <1>1, <1>4, DigitsExist
    <1>6. Q(g)
        BY <1>2, <1>5 DEF Digits
    <1> HIDE DEF Q
    <1>7. Q(f)
        BY <1>6
    <1> HIDE DEF f
    <1>8. Digits(f, n, ByteValues, d)
        BY <1>2, <1>7 DEF Q, Digits
    <1> QED
        BY <1>1, <1>3, <1>4, <1>8, DigitsTyped

\* Whatever the order of the bytes, what is read is a number.
LEMMA ReadTyped ==
    ASSUME stream \in Seq(Nat), NEW p, NEW n \in {u1, u2, u4}
    PROVE  read_e(p, n) \in Nat /\ fread(p, n) \in Nat
    <1>1. n \in 0 .. 4
        BY DEF u1, u2, u4
    <1> QED
        BY <1>1, FreadTyped, BswapTyped DEF read_e

----------------------------------------------------------------------------
(* The parser: its inductive invariant. *)

\* The owner of an attribute: the program counts fields, methods and the
\* attributes themselves.
Owners == {<< >>} \cup ({"field", "method", "class", "code"} \X Nat)

Frames ==
    [kind : {"constant", "interfaces", "field", "method", "attribute"},
     n : Int, owner : Owners]

\* Only a call for attributes is nested in another one.
Shaped(frames) ==
    /\ frames \in Seq(Frames)
    /\ \A k \in DOMAIN frames :
          /\ frames[k].kind # "attribute" => k = 1 /\ frames[k].owner = << >>
          /\ frames[k].kind = "interfaces" => frames[k].n \in Nat

FramesOK ==
    /\ Shaped(todo)
    /\ at \in {"reading", "signature"} => todo # << >>
    /\ at = "signature" => Len(todo) = 1 /\ todo[1].kind = "method" /\ class.methods # << >>

\* The attributes of a method are read while it is the last one, and the code
\* found among them is its own.
OwnedRight(frames, methods, c) ==
    \A k \in DOMAIN frames : \A m \in Nat :
        frames[k].owner = <<"method", m>> => m = Len(methods) /\ m >= 1 /\ c = m

OwnersOK == OwnedRight(todo, class.methods, c_attr_to_set)

Numbers ==
    /\ stream \in Seq(Nat)
    /\ pos \in Nat
    /\ c_attr_to_set \in Elsewhere \cup Nat
    /\ i \in Nat /\ nargs \in Nat

ClassParts ==
    {"pool", "access", "this", "super", "interfaces", "fields", "methods", "attributes",
     "name", "static_initialized"}

Methods ==
    [access : Nat, name : Texts, signature : Texts,
     nargs : Nat \cup {Unset}, c_attr : Nat \cup {Unset}]

EntriesOK(entries) ==
    /\ IsSequence(entries)
    /\ \A x \in DOMAIN entries :
          entries[x].tag = CONSTANT_Utf8 => entries[x].words[1] \in Texts

AttributesOK(methods, attributes) ==
    /\ IsSequence(attributes)
    /\ \A x \in DOMAIN attributes : \A m \in Nat :
          attributes[x].owner = <<"method", m>> => m >= 1 /\ m <= Len(methods)

\* What a class file owes: code belongs to a method, and not two to the same.
CodeInPlace(attributes) ==
    \A x \in DOMAIN attributes :
        attributes[x].name = Code =>
            /\ \E m \in Nat : attributes[x].owner = <<"method", m>>
            /\ \A y \in DOMAIN attributes :
                  attributes[y].name = Code /\ attributes[y].owner = attributes[x].owner => y = x

CodesOf(attributes, m) ==
    {x \in DOMAIN attributes :
        attributes[x].owner = <<"method", m>> /\ attributes[x].name = Code}

Shortcuts(methods, attributes) ==
    CodeInPlace(attributes) =>
        \A m \in DOMAIN methods :
            IF CodesOf(attributes, m) = {} THEN methods[m].c_attr = Unset
            ELSE CodesOf(attributes, m) = {methods[m].c_attr}

PartsOK(entries, fields, methods, attributes) ==
    /\ EntriesOK(entries)
    /\ IsSequence(fields)
    /\ methods \in Seq(Methods)
    /\ AttributesOK(methods, attributes)
    /\ Shortcuts(methods, attributes)

HasParts(c, entries, fields, methods, attributes) ==
    /\ DOMAIN c = ClassParts
    /\ c.pool = entries /\ c.fields = fields /\ c.methods = methods
    /\ c.attributes = attributes /\ c.static_initialized = FALSE

ClassOK ==
    /\ HasParts(class, class.pool, class.fields, class.methods, class.attributes)
    /\ PartsOK(class.pool, class.fields, class.methods, class.attributes)

WordsOK ==
    /\ at \in {"idle", "start", "reading", "parsed"} =>
          \A m \in DOMAIN class.methods : CountedRight(class.methods[m])
    /\ at = "signature" =>
          /\ signature = class.methods[Len(class.methods)].signature
          /\ \A m \in DOMAIN class.methods :
                m # Len(class.methods) => CountedRight(class.methods[m])

FileInv == ScanInv /\ Numbers /\ FramesOK /\ OwnersOK /\ ClassOK /\ WordsOK

\* c_attr_to_set points to the last method of the class under construction, or
\* there is none yet.
TargetOK ==
    /\ at \in {"idle", "start", "reading", "parsed"} =>
          \/ Len(class.methods) = 0 /\ c_attr_to_set \in Elsewhere
          \/ Len(class.methods) >= 1 /\ c_attr_to_set = Len(class.methods)
    /\ at \in {"idle", "start"} => class = NoClass

\* The classes of the ring.
RingMethods ==
    [access : Nat, name : Texts, signature : Texts,
     nargs : Nat \cup {Unset}, c_attr : Nat \cup {Unset, Foreign}]

LoadedOK(c) ==
    /\ DOMAIN c = ClassParts
    /\ c.static_initialized \in BOOLEAN
    /\ c.methods \in Seq(RingMethods)
    /\ \A m \in DOMAIN c.methods : CountedRight(c.methods[m])

RingRight == \A k \in DOMAIN ring : LoadedOK(ring[k].class)

\* Code outside of the methods of a class, also of those to come.
Misplaced(c) ==
    \E x \in DOMAIN c.attributes :
        c.attributes[x].name = Code /\ \A m \in Nat : c.attributes[x].owner # <<"method", m>>

Disturbed(k) ==
    Misplaced(class) \/ \E j \in k + 1 .. Len(ring) : Misplaced(ring[j].class)

\* Only the last method of a class can have lost its code.
CodeKept ==
    \A k \in DOMAIN ring : \A m \in DOMAIN ring[k].class.methods :
        CodePlaced(ring[k].class) =>
            \/ HasOwnCode(ring[k].class, m)
            \/ m = Len(ring[k].class.methods) /\ Disturbed(k)

\* The method that c_attr_to_set points to is the last one of its class.
PointerOK ==
    /\ last_method \in [class : Nat, method : Nat]
    /\ c_attr_to_set = Stale =>
          /\ last_method.class \in DOMAIN ring
          /\ last_method.method = Len(ring[last_method.class].class.methods)

RingInv == RingRight /\ CodeKept /\ PointerOK

----------------------------------------------------------------------------
(* Frames and owners. *)

LEMMA OwnersDiffer ==
    ASSUME NEW m \in Nat, NEW n \in Nat
    PROVE  /\ << >> # <<"method", m>>
           /\ <<"field", n>> # <<"method", m>>
           /\ <<"class", n>> # <<"method", m>>
           /\ <<"code", n>> # <<"method", m>>
           /\ <<"method", n>> = <<"method", m>> => n = m
           /\ {<< >>, <<"field", n>>, <<"method", n>>, <<"class", n>>, <<"code", n>>}
                  \subseteq Owners
    <1>1. << >> # <<"method", m>>
        <2>1. Len(<< >>) = 0 /\ Len(<<"method", m>>) = 2
            OBVIOUS
        <2> QED
            BY <2>1
    <1>2. /\ <<"field", n>>[1] = "field" /\ <<"class", n>>[1] = "class"
          /\ <<"code", n>>[1] = "code" /\ <<"method", m>>[1] = "method"
          /\ <<"method", n>>[2] = n /\ <<"method", m>>[2] = m
        OBVIOUS
    <1>3. {<< >>, <<"field", n>>, <<"method", n>>, <<"class", n>>, <<"code", n>>} \subseteq Owners
        BY DEF Owners
    <1> QED
        BY <1>1, <1>2, <1>3

LEMMA TopFrame ==
    ASSUME todo \in Seq(Frames), todo # << >>
    PROVE  /\ Len(todo) \in Nat \ {0} /\ DOMAIN todo = 1 .. Len(todo)
           /\ Len(todo) \in DOMAIN todo /\ Top = todo[Len(todo)] /\ Top \in Frames
    BY DEF Top, Last

LEMMA BelowFrames ==
    ASSUME todo \in Seq(Frames), todo # << >>
    PROVE  /\ Below \in Seq(Frames) /\ Len(Below) = Len(todo) - 1
           /\ DOMAIN Below = 1 .. Len(todo) - 1
           /\ \A k \in DOMAIN Below : k \in DOMAIN todo /\ Below[k] = todo[k]
    BY TopFrame DEF Below, Front

LEMMA CountDownFrames ==
    ASSUME todo \in Seq(Frames), todo # << >>
    PROVE  /\ CountDown \in Seq(Frames) /\ Len(CountDown) = Len(todo)
           /\ DOMAIN CountDown = DOMAIN todo
           /\ \A k \in DOMAIN todo :
                 /\ CountDown[k].kind = todo[k].kind /\ CountDown[k].owner = todo[k].owner
                 /\ k # Len(todo) => CountDown[k] = todo[k]
    <1>1. PICK n \in Nat \ {0} : n = Len(todo) /\ DOMAIN todo = 1 .. n
        BY TopFrame
    <1>2. PICK low \in Seq(Frames) :
              low = Below /\ Len(low) = n - 1 /\ \A k \in 1 .. n - 1 : low[k] = todo[k]
        BY <1>1, BelowFrames
    <1>3. PICK t \in Frames : t = Top /\ t = todo[n]
        BY <1>1, TopFrame
    <1> DEFINE e == [t EXCEPT !.n = @ - 1]
    <1>4. e \in Frames /\ e.kind = t.kind /\ e.owner = t.owner
        <2>1. /\ t = [kind |-> t.kind, n |-> t.n, owner |-> t.owner]
              /\ t.kind \in {"constant", "interfaces", "field", "method", "attribute"}
              /\ t.n \in Int /\ t.owner \in Owners
            BY <1>3 DEF Frames
        <2>2. e = [kind |-> t.kind, n |-> t.n - 1, owner |-> t.owner] /\ t.n - 1 \in Int
            BY <2>1
        <2> QED
            BY <2>1, <2>2 DEF Frames
    <1>5. CountDown = Append(low, e)
        BY <1>2, <1>3 DEF CountDown
    <1> HIDE DEF e
    <1>6. /\ Append(low, e) \in Seq(Frames) /\ Len(Append(low, e)) = n
          /\ \A k \in 1 .. n - 1 : Append(low, e)[k] = low[k]
          /\ Append(low, e)[n] = e
        BY <1>1, <1>2, <1>4
    <1>7. \A k \in 1 .. n : k \in 1 .. n - 1 \/ k = n
        BY <1>1
    <1> QED
        BY <1>1, <1>2, <1>3, <1>4, <1>5, <1>6, <1>7

----------------------------------------------------------------------------
(* Parts of a class. *)

LEMMA EntryAppended ==
    ASSUME NEW p, NEW f, NEW ms, NEW attrs, PartsOK(p, f, ms, attrs), NEW e,
           e.tag = CONSTANT_Utf8 => e.words[1] \in Texts
    PROVE  PartsOK(Append(p, e), f, ms, attrs)
    <1>1. IsSequence(p) /\ \A x \in DOMAIN p : p[x].tag = CONSTANT_Utf8 => p[x].words[1] \in Texts
        BY DEF PartsOK, EntriesOK
    <1>2. PICK n \in Nat : n = Len(p) /\ DOMAIN p = 1 .. n
        BY <1>1, SequenceTyped
    <1>3. PICK q : q = Append(p, e)
        OBVIOUS
    <1>4. /\ IsSequence(q) /\ DOMAIN q = 1 .. n + 1 /\ q[n + 1] = e
          /\ \A x \in 1 .. n : q[x] = p[x]
        BY <1>1, <1>2, <1>3, AppendSequence
    <1>5. \A x \in 1 .. n + 1 : x \in 1 .. n \/ x = n + 1
        BY <1>2
    <1>6. EntriesOK(q)
        BY <1>1, <1>2, <1>4, <1>5 DEF EntriesOK
    <1> QED
        BY <1>3, <1>6 DEF PartsOK

LEMMA FieldAppended ==
    ASSUME NEW p, NEW f, NEW ms, NEW attrs, PartsOK(p, f, ms, attrs), NEW e
    PROVE  PartsOK(p, Append(f, e), ms, attrs)
    BY AppendSequence DEF PartsOK

LEMMA NoParts == PartsOK(<< >>, << >>, << >>, << >>)
    <1>1. EntriesOK(<< >>) /\ IsSequence(<< >>) /\ AttributesOK(<< >>, << >>)
        BY EmptySequence DEF EntriesOK, AttributesOK
    <1>2. << >> \in Seq(Methods)
        OBVIOUS
    <1>3. Shortcuts(<< >>, << >>)
        BY EmptySequence DEF Shortcuts
    <1> QED
        BY <1>1, <1>2, <1>3 DEF PartsOK

\* A new method has no attribute yet.
LEMMA MethodAppended ==
    ASSUME NEW p, NEW f, NEW ms, NEW attrs, PartsOK(p, f, ms, attrs),
           NEW d \in Methods, d.c_attr = Unset
    PROVE  PartsOK(p, f, Append(ms, d), attrs)
    <1>1. PICK n \in Nat : n = Len(ms) /\ DOMAIN ms = 1 .. n
        BY DEF PartsOK
    <1>8. ms \in Seq(Methods)
        BY DEF PartsOK
    <1>2. PICK q \in Seq(Methods) :
              /\ q = Append(ms, d) /\ Len(q) = n + 1 /\ q[n + 1] = d
              /\ \A m \in 1 .. n : q[m] = ms[m]
        <2>1. Append(ms, d) \in Seq(Methods)
            BY <1>8
        <2>2. Len(Append(ms, d)) = n + 1 /\ Append(ms, d)[n + 1] = d
            BY <1>1, <1>8
        <2>3. \A m \in 1 .. n : Append(ms, d)[m] = ms[m]
            BY <1>1, <1>8
        <2> QED
            BY <2>1, <2>2, <2>3
    <1>3. DOMAIN q = 1 .. n + 1 /\ n + 1 \in Nat
        BY <1>1, <1>2
    <1>4. IsSequence(attrs) /\ \A x \in DOMAIN attrs : \A m \in Nat :
              attrs[x].owner = <<"method", m>> => m >= 1 /\ m <= n
        BY <1>1 DEF PartsOK, AttributesOK
    <1>5. AttributesOK(q, attrs)
        <2>1. \A m \in Nat : m <= n => m <= n + 1
            BY <1>1
        <2> QED
            BY <1>2, <1>4, <2>1 DEF AttributesOK
    <1>6. CodesOf(attrs, n + 1) = {}
        <2>1. ~ (n + 1 <= n)
            BY <1>1
        <2> QED
            BY <1>3, <1>4, <2>1 DEF CodesOf
    <1>7. Shortcuts(q, attrs)
        <2> SUFFICES ASSUME CodeInPlace(attrs), NEW m \in 1 .. n + 1
                     PROVE  IF CodesOf(attrs, m) = {} THEN q[m].c_attr = Unset
                            ELSE CodesOf(attrs, m) = {q[m].c_attr}
            BY <1>3 DEF Shortcuts
        <2>1. CASE m = n + 1
            BY <1>2, <1>6, <2>1
        <2>2. CASE m # n + 1
            <3>1. m \in 1 .. n
                BY <1>1, <2>2
            <3>2. IF CodesOf(attrs, m) = {} THEN ms[m].c_attr = Unset
                  ELSE CodesOf(attrs, m) = {ms[m].c_attr}
                BY <1>1, <3>1 DEF PartsOK, Shortcuts
            <3> QED
                BY <1>2, <3>1, <3>2
        <2> QED
            BY <2>1, <2>2
    <1> QED
        BY <1>2, <1>5, <1>7 DEF PartsOK

\* What is known of a method changes, but not its shortcut.
LEMMA MethodChanged ==
    ASSUME NEW p, NEW f, NEW ms, NEW attrs, PartsOK(p, f, ms, attrs),
           NEW q \in Seq(Methods), Len(q) = Len(ms),
           \A m \in DOMAIN ms : q[m].c_attr = ms[m].c_attr
    PROVE  PartsOK(p, f, q, attrs)
    <1>1. ms \in Seq(Methods) /\ DOMAIN q = DOMAIN ms
        BY DEF PartsOK
    <1>2. AttributesOK(q, attrs)
        BY DEF PartsOK, AttributesOK
    <1>3. Shortcuts(q, attrs)
        BY <1>1 DEF PartsOK, Shortcuts
    <1> QED
        BY <1>2, <1>3 DEF PartsOK

\* An attribute that is not the code of a method, and one that is the code of
\* method j if it is that of a method at all.
NotCode(ms, a) ==
    \A m \in Nat : a.owner = <<"method", m>> => m >= 1 /\ m <= Len(ms) /\ a.name # Code

CodeOf(ms, a, j) ==
    /\ a.name = Code
    /\ \A m \in Nat : a.owner = <<"method", m>> => m >= 1 /\ m <= Len(ms) /\ m = j

LEMMA AttributeAppended ==
    ASSUME NEW p, NEW f, NEW ms, NEW attrs, PartsOK(p, f, ms, attrs), NEW a,
           NotCode(ms, a)
    PROVE  PartsOK(p, f, ms, Append(attrs, a))
    <1>1. PICK n \in Nat : n = Len(attrs) /\ DOMAIN attrs = 1 .. n
        BY SequenceTyped DEF PartsOK, AttributesOK
    <1>2. PICK q : q = Append(attrs, a)
        OBVIOUS
    <1>3. /\ IsSequence(q) /\ DOMAIN q = 1 .. n + 1 /\ q[n + 1] = a
          /\ \A x \in 1 .. n : q[x] = attrs[x]
        BY <1>1, <1>2, AppendSequence DEF PartsOK, AttributesOK
    <1>4. \A x \in 1 .. n + 1 : x \in 1 .. n \/ x = n + 1
        BY <1>1
    <1>5. AttributesOK(ms, q)
        BY <1>1, <1>3, <1>4 DEF PartsOK, AttributesOK, NotCode
    <1>6. \A x \in 1 .. n : x \in 1 .. n + 1
        BY <1>1
    <1>7. n + 1 \in 1 .. n + 1
        BY <1>1
    <1>8. CodeInPlace(q) => CodeInPlace(attrs)
        BY <1>1, <1>3, <1>6 DEF CodeInPlace
    <1>9. CodeInPlace(q) => a.name # Code
        BY <1>3, <1>7 DEF CodeInPlace, NotCode
    <1>10. ms \in Seq(Methods) /\ DOMAIN ms = 1 .. Len(ms) /\ Len(ms) \in Nat
        BY DEF PartsOK
    <1>11. ASSUME NEW m \in DOMAIN ms
           PROVE  a.name # Code => CodesOf(q, m) = CodesOf(attrs, m)
        BY <1>1, <1>3, <1>4, <1>6 DEF CodesOf
    <1>12. Shortcuts(ms, q)
        BY <1>8, <1>9, <1>11 DEF PartsOK, Shortcuts
    <1> QED
        BY <1>2, <1>5, <1>12 DEF PartsOK

ShortcutSet(q, ms, j, x) ==
    \A m \in DOMAIN ms : q[m].c_attr = IF m = j THEN x ELSE ms[m].c_attr

\* The code of method j, with its shortcut; or code in a wrong place.
LEMMA CodeAppended ==
    ASSUME NEW p, NEW f, NEW ms, NEW attrs, PartsOK(p, f, ms, attrs), NEW a, NEW j \in Nat,
           CodeOf(ms, a, j), NEW q \in Seq(Methods), Len(q) = Len(ms),
           ShortcutSet(q, ms, j, Len(attrs) + 1)
    PROVE  PartsOK(p, f, q, Append(attrs, a))
    <1>1. PICK n \in Nat : n = Len(attrs) /\ DOMAIN attrs = 1 .. n
        BY SequenceTyped DEF PartsOK, AttributesOK
    <1>2. PICK r : r = Append(attrs, a)
        OBVIOUS
    <1>3. /\ IsSequence(r) /\ DOMAIN r = 1 .. n + 1 /\ r[n + 1] = a
          /\ \A x \in 1 .. n : r[x] = attrs[x]
        BY <1>1, <1>2, AppendSequence DEF PartsOK, AttributesOK
    <1>4. \A x \in 1 .. n + 1 : x \in 1 .. n \/ x = n + 1
        BY <1>1
    <1>10. a.name = Code /\ \A m \in Nat : a.owner = <<"method", m>> => m = j
        BY DEF CodeOf
    <1>5. AttributesOK(q, r)
        BY <1>1, <1>3, <1>4 DEF PartsOK, AttributesOK, CodeOf
    <1>6. (\A x \in 1 .. n : x \in 1 .. n + 1) /\ n + 1 \in 1 .. n + 1 /\ n + 1 \notin 1 .. n
        BY <1>1
    <1>7. ms \in Seq(Methods) /\ DOMAIN ms = 1 .. Len(ms) /\ Len(ms) \in Nat /\ DOMAIN q = DOMAIN ms
        BY DEF PartsOK
    <1>8. ASSUME CodeInPlace(r)
          PROVE  \A m \in DOMAIN q : IF CodesOf(r, m) = {} THEN q[m].c_attr = Unset
                                     ELSE CodesOf(r, m) = {q[m].c_attr}
        <2>1. a.owner = <<"method", j>>
            <3>1. PICK m \in Nat : a.owner = <<"method", m>>
                BY <1>3, <1>6, <1>8, <1>10 DEF CodeInPlace
            <3> QED
                BY <3>1, <1>10
        <2>2. CodeInPlace(attrs)
            BY <1>1, <1>3, <1>6, <1>8 DEF CodeInPlace
        <2>3. \A x \in 1 .. n : ~ (attrs[x].name = Code /\ attrs[x].owner = <<"method", j>>)
            BY <1>3, <1>6, <1>8, <1>10, <2>1 DEF CodeInPlace
        <2>4. CodesOf(r, j) = {n + 1}
            BY <1>3, <1>4, <1>6, <1>10, <2>1, <2>3 DEF CodesOf
        <2>5. ASSUME NEW m \in DOMAIN ms, m # j
              PROVE  CodesOf(r, m) = CodesOf(attrs, m)
            <3>1. m \in Nat
                BY <1>7
            <3>2. a.owner # <<"method", m>>
                BY <2>5, <3>1, <1>10
            <3> QED
                BY <1>1, <1>3, <1>4, <1>6, <3>2 DEF CodesOf
        <2>6. \A m \in DOMAIN ms : IF CodesOf(attrs, m) = {} THEN ms[m].c_attr = Unset
                                   ELSE CodesOf(attrs, m) = {ms[m].c_attr}
            BY <2>2 DEF PartsOK, Shortcuts
        <2> SUFFICES ASSUME NEW m \in DOMAIN ms
                     PROVE  IF CodesOf(r, m) = {} THEN q[m].c_attr = Unset
                            ELSE CodesOf(r, m) = {q[m].c_attr}
            BY <1>7
        <2>7. CASE m = j
            <3>1. q[m].c_attr = n + 1
                BY <1>1, <2>7 DEF ShortcutSet
            <3> QED
                BY <2>4, <2>7, <3>1
        <2>8. CASE m # j
            <3>1. q[m].c_attr = ms[m].c_attr
                BY <2>8 DEF ShortcutSet
            <3> QED
                BY <2>5, <2>6, <2>8, <3>1
        <2> QED
            BY <2>7, <2>8
    <1>9. Shortcuts(q, r)
        BY <1>8 DEF Shortcuts
    <1> QED
        BY <1>2, <1>5, <1>9 DEF PartsOK


----------------------------------------------------------------------------
(* Calls under way. *)

LEMMA CountDownShaped ==
    ASSUME Shaped(todo), todo # << >>, Top.kind # "interfaces"
    PROVE  /\ Shaped(CountDown) /\ CountDown # << >>
           /\ Len(CountDown) = Len(todo)
           /\ \A ms, c : OwnedRight(todo, ms, c) => OwnedRight(CountDown, ms, c)
    <1>1. /\ CountDown \in Seq(Frames) /\ Len(CountDown) = Len(todo)
          /\ DOMAIN CountDown = DOMAIN todo
          /\ \A k \in DOMAIN todo :
                /\ CountDown[k].kind = todo[k].kind /\ CountDown[k].owner = todo[k].owner
                /\ k # Len(todo) => CountDown[k] = todo[k]
        BY CountDownFrames DEF Shaped
    <1>2. Len(todo) \in Nat \ {0} /\ Top = todo[Len(todo)]
        BY TopFrame DEF Shaped
    <1>3. CountDown # << >>
        BY <1>1, <1>2
    <1> HIDE DEF CountDown
    <1>4. Shaped(CountDown)
        BY <1>1, <1>2 DEF Shaped
    <1>5. \A ms, c : OwnedRight(todo, ms, c) => OwnedRight(CountDown, ms, c)
        BY <1>1 DEF OwnedRight
    <1> QED
        BY <1>1, <1>3, <1>4, <1>5

LEMMA BelowShaped ==
    ASSUME Shaped(todo), todo # << >>
    PROVE  /\ Shaped(Below)
           /\ \A ms, c : OwnedRight(todo, ms, c) => OwnedRight(Below, ms, c)
    <1>1. /\ Below \in Seq(Frames)
          /\ \A k \in DOMAIN Below : k \in DOMAIN todo /\ Below[k] = todo[k]
        BY BelowFrames DEF Shaped
    <1> HIDE DEF Below
    <1>2. Shaped(Below)
        BY <1>1 DEF Shaped
    <1>3. \A ms, c : OwnedRight(todo, ms, c) => OwnedRight(Below, ms, c)
        BY <1>1 DEF OwnedRight
    <1> QED
        BY <1>2, <1>3

LEMMA SingleShaped ==
    ASSUME NEW f \in Frames, f.kind # "attribute" => f.owner = << >>,
           f.kind = "interfaces" => f.n \in Nat, \A m \in Nat : f.owner # <<"method", m>>
    PROVE  /\ Shaped(<<f>>) /\ <<f>> # << >>
           /\ \A ms, c : OwnedRight(<<f>>, ms, c)
    <1>1. <<f>> \in Seq(Frames) /\ DOMAIN <<f>> = {1} /\ <<f>>[1] = f /\ Len(<<f>>) = 1
        BY SingleSequence
    <1>2. <<f>> # << >>
        BY <1>1, EmptySequence
    <1>3. Shaped(<<f>>)
        BY <1>1 DEF Shaped
    <1>4. \A ms, c : OwnedRight(<<f>>, ms, c)
        BY <1>1 DEF OwnedRight
    <1> QED
        BY <1>2, <1>3, <1>4

LEMMA PushShaped ==
    ASSUME NEW s, Shaped(s), NEW f \in Frames, f.kind = "attribute"
    PROVE  /\ Shaped(Append(s, f)) /\ Append(s, f) # << >>
           /\ \A ms, c : OwnedRight(s, ms, c)
                         /\ (\A m \in Nat : f.owner = <<"method", m>> =>
                                m = Len(ms) /\ m >= 1 /\ c = m)
                         => OwnedRight(Append(s, f), ms, c)
    <1>1. PICK n \in Nat : n = Len(s) /\ DOMAIN s = 1 .. n
        BY DEF Shaped
    <1>2. PICK t : t = Append(s, f)
        OBVIOUS
    <1>3. t \in Seq(Frames) /\ Len(t) = n + 1
        BY <1>1, <1>2 DEF Shaped
    <1>4. DOMAIN t = 1 .. n + 1 /\ t[n + 1] = f
        BY <1>1, <1>2, <1>3 DEF Shaped
    <1>5. \A k \in 1 .. n : t[k] = s[k]
        BY <1>1, <1>2 DEF Shaped
    <1>6. \A k \in 1 .. n + 1 : k \in 1 .. n \/ k = n + 1
        BY <1>1
    <1>7. Shaped(t)
        BY <1>1, <1>3, <1>4, <1>5, <1>6 DEF Shaped
    <1>8. t # << >>
        BY <1>3
    <1>9. ASSUME NEW ms, NEW c, OwnedRight(s, ms, c),
                 \A m \in Nat : f.owner = <<"method", m>> => m = Len(ms) /\ m >= 1 /\ c = m
          PROVE  OwnedRight(t, ms, c)
        BY <1>1, <1>4, <1>5, <1>6, <1>9 DEF OwnedRight
    <1> QED
        BY <1>2, <1>7, <1>8, <1>9

----------------------------------------------------------------------------
(* Kinds of steps. *)

LEMMA ScanTyped ==
    ASSUME i \in Nat, nargs \in Nat, [NextScan]_scanVars
    PROVE  i' \in Nat /\ nargs' \in Nat
    <1>1. PICK p \in Nat, n \in Nat, u \in Nat \ {0} : p = i /\ n = nargs /\ u = U1Values
        BY SignatureAssumption
    <1>2. /\ p + 1 \in Nat /\ 1 \in Nat /\ 2 \in Nat /\ 0 \in Nat
          /\ (n + 1) % u \in Nat /\ (n + 2) % u \in Nat
        BY <1>1
    <1>3. \A char : WordsFor(char) \in {1, 2}
        BY DEF WordsFor
    <1>4. CASE \E s \in Signatures : calculate_nargs(s)
        BY <1>2, <1>4 DEF calculate_nargs
    <1>5. CASE Scan
        <2>1. i' = p + 1
            BY <1>1, <1>5 DEF Scan, Close, ClassPart, ArrayPart, Parameter, Invalid, Turn
        <2>2. nargs' = n \/ nargs' = (n + WordsFor(signature_char)) % u
            BY <1>1, <1>5 DEF Scan, Close, ClassPart, ArrayPart, Parameter, Invalid, ElementType
        <2> QED
            BY <1>1, <1>2, <1>3, <2>1, <2>2
    <1>6. CASE Return
        BY <1>2, <1>6 DEF Return
    <1>7. CASE UNCHANGED scanVars
        BY <1>7 DEF scanVars
    <1> QED
        BY <1>4, <1>5, <1>6, <1>7 DEF NextScan

\* A step that gives up.
LEMMA FailKeeps ==
    ASSUME FileInv, at' \in {"exit", "unknown"},
           UNCHANGED <<stream, pos, todo, class, c_attr_to_set>>, UNCHANGED scanVars
    PROVE  FileInv'
    <1>1. ScanInv'
        BY ScanStep DEF FileInv
    <1>2. Numbers' /\ OwnersOK' /\ ClassOK'
        BY DEF FileInv, Numbers, OwnersOK, OwnedRight, ClassOK, HasParts, PartsOK, scanVars
    <1>3. FramesOK'
        BY DEF FileInv, FramesOK
    <1>4. WordsOK'
        BY DEF WordsOK
    <1> QED
        BY <1>1, <1>2, <1>3, <1>4 DEF FileInv

\* What is counted of the methods stays.
MethodsStay ==
    /\ Len(class'.methods) = Len(class.methods)
    /\ \A m \in DOMAIN class.methods :
          /\ class'.methods[m].signature = class.methods[m].signature
          /\ class'.methods[m].nargs = class.methods[m].nargs

\* A step that reads something behind which no signature is scanned.
LEMMA ReadKeeps ==
    ASSUME FileInv, at \in {"start", "reading"}, at' \in {"reading", "parsed", "unknown"},
           UNCHANGED <<stream, c_attr_to_set>>, UNCHANGED scanVars, pos' \in Nat,
           Shaped(todo'), todo' # << >>,
           OwnedRight(todo', class.methods, c_attr_to_set), ClassOK', MethodsStay
    PROVE  FileInv'
    <1>1. ScanInv'
        BY ScanStep DEF FileInv
    <1>2. Numbers'
        BY DEF FileInv, Numbers, scanVars
    <1>3. FramesOK'
        BY DEF FramesOK
    <1>4. OwnersOK'
        BY DEF OwnersOK, OwnedRight, MethodsStay
    <1>5. WordsOK'
        <2>1. class.methods \in Seq(Methods) /\ class'.methods \in Seq(Methods)
            BY DEF FileInv, ClassOK, PartsOK
        <2>2. DOMAIN class'.methods = DOMAIN class.methods
            BY <2>1 DEF MethodsStay
        <2>3. \A m \in DOMAIN class.methods : CountedRight(class.methods[m])
            BY DEF FileInv, WordsOK
        <2>4. \A m \in DOMAIN class.methods :
                  CountedRight(class.methods[m]) => CountedRight(class'.methods[m])
            BY DEF CountedRight, MethodsStay
        <2> QED
            BY <2>2, <2>3, <2>4 DEF WordsOK
    <1> QED
        BY <1>1, <1>2, <1>3, <1>4, <1>5 DEF FileInv

----------------------------------------------------------------------------
(* The steps of the parser. *)

LEMMA ReadNumbers ==
    ASSUME stream \in Seq(Nat), NEW p, NEW ws \in Seq({u1, u2, u4})
    PROVE  /\ ReadFrom(p, ws) \in Seq(Nat) /\ Len(ReadFrom(p, ws)) = Len(ws)
           /\ \A k \in 1 .. Len(ws) : ReadFrom(p, ws)[k] \in Nat
    <1>1. PICK n \in Nat : n = Len(ws) /\ DOMAIN ws = 1 .. n
        OBVIOUS
    <1>2. \A k \in 1 .. n : read_e(p + Total(SubSeq(ws, 1, k - 1)), ws[k]) \in Nat
        <2>1. \A k \in 1 .. n : ws[k] \in {u1, u2, u4}
            BY <1>1
        <2> QED
            BY <2>1, ReadTyped
    <1>3. ReadFrom(p, ws) \in [1 .. n -> Nat]
        BY <1>1, <1>2 DEF ReadFrom
    <1>4. PICK r : r = ReadFrom(p, ws)
        OBVIOUS
    <1>5. r \in [1 .. n -> Nat]
        BY <1>3, <1>4
    <1>6. r \in Seq(Nat)
        BY <1>1, <1>5
    <1>7. Len(r) = n /\ \A k \in 1 .. n : r[k] \in Nat
        BY <1>1, <1>5, <1>6
    <1> QED
        BY <1>1, <1>4, <1>6, <1>7

\* The places that follow.
LEMMA GoOnTyped ==
    ASSUME pos \in Nat, NEW n \in Nat, NEW skip \in Nat, NEW there, GoOn(n, skip, there)
    PROVE  pos' \in Nat /\ at' \in {there, "unknown"}
    BY DEF GoOn

LEMMA ClassStays ==
    ASSUME ClassOK, class' = class
    PROVE  ClassOK' /\ MethodsStay
    BY DEF ClassOK, HasParts, PartsOK, MethodsStay

LEMMA FrameTyped ==
    ASSUME NEW kind \in {"constant", "interfaces", "field", "method", "attribute"},
           NEW n \in Int, NEW owner \in Owners
    PROVE  /\ Frame(kind, n, owner) \in Frames
           /\ Frame(kind, n, owner).kind = kind /\ Frame(kind, n, owner).n = n
           /\ Frame(kind, n, owner).owner = owner
    BY DEF Frame, Frames

\* A table begins, and nothing that was read is changed but its length.
LEMMA TableKeeps ==
    ASSUME FileInv, at \in {"start", "reading"}, at' \in {"reading", "unknown"},
           UNCHANGED <<stream, c_attr_to_set>>, UNCHANGED scanVars, pos' \in Nat,
           NEW kind \in {"constant", "interfaces", "field", "method", "attribute"},
           NEW n \in Int, kind = "interfaces" => n \in Nat,
           NEW owner \in {<< >>, <<"class", 0>>}, kind # "attribute" => owner = << >>,
           todo' = <<Frame(kind, n, owner)>>, ClassOK', MethodsStay
    PROVE  FileInv'
    <1>1. owner \in Owners /\ \A m \in Nat : owner # <<"method", m>>
        BY OwnersDiffer, 0 \in Nat
    <1>2. PICK f \in Frames : /\ f = Frame(kind, n, owner) /\ f.kind = kind /\ f.n = n
                              /\ f.owner = owner
        BY <1>1, FrameTyped
    <1>3. /\ Shaped(<<f>>) /\ <<f>> # << >>
          /\ OwnedRight(<<f>>, class.methods, c_attr_to_set)
        BY <1>1, <1>2, SingleShaped
    <1> QED
        BY <1>2, <1>3, ReadKeeps

LEMMA ParseFileKeeps ==
    ASSUME FileInv, parse_file
    PROVE  FileInv'
    <1>1. PICK n \in Nat : n = ReadFrom(pos + u4, <<u2, u2, u2>>)[3]
        <2>1. <<u2, u2, u2>> \in Seq({u1, u2, u4}) /\ Len(<<u2, u2, u2>>) = 3 /\ 3 \in 1 .. 3
            OBVIOUS
        <2> QED
            BY <2>1, ReadNumbers DEF FileInv, Numbers
    <1>2. /\ at = "start" /\ todo' = <<Frame("constant", n - 1, << >>)>>
          /\ GoOn(u4 + 3 * u2, 0, "reading")
          /\ UNCHANGED <<stream, class, c_attr_to_set>> /\ UNCHANGED scanVars
        BY <1>1 DEF parse_file, SameScan
    <1>3. pos' \in Nat /\ at' \in {"reading", "unknown"}
        <2>1. u4 + 3 * u2 \in Nat /\ 0 \in Nat
            BY DEF u4, u2
        <2> QED
            BY <1>2, <2>1, GoOnTyped DEF FileInv, Numbers
    <1>4. ClassOK' /\ MethodsStay
        BY <1>2, ClassStays DEF FileInv
    <1>5. n - 1 \in Int
        BY <1>1
    <1> QED
        BY <1>2, <1>3, <1>4, <1>5, TableKeeps

\* What the parser knows where it reads a table.
LEMMA AtTable ==
    ASSUME FileInv, NEW kind, At(kind)
    PROVE  /\ at = "reading" /\ todo # << >> /\ Shaped(todo) /\ Top.kind = kind
           /\ Top \in Frames /\ Len(todo) \in Nat \ {0} /\ Top = todo[Len(todo)]
           /\ Len(todo) \in DOMAIN todo
           /\ OwnedRight(todo, class.methods, c_attr_to_set)
           /\ kind # "attribute" => Len(todo) = 1
           /\ stream \in Seq(Nat) /\ pos \in Nat
    <1>1. at = "reading" /\ Top.kind = kind
        BY DEF At
    <1>2. todo # << >> /\ Shaped(todo)
        BY <1>1 DEF FileInv, FramesOK
    <1>3. /\ Len(todo) \in Nat \ {0} /\ Len(todo) \in DOMAIN todo
          /\ Top = todo[Len(todo)] /\ Top \in Frames
        BY <1>2, TopFrame DEF Shaped
    <1>4. kind # "attribute" => Len(todo) = 1
        BY <1>1, <1>2, <1>3 DEF Shaped
    <1> QED
        BY <1>1, <1>2, <1>3, <1>4 DEF FileInv, OwnersOK, Numbers

\* An entry of the pool.
LEMMA ConstantKeeps ==
    ASSUME FileInv, At("constant"), NEW entry,
           entry.tag = CONSTANT_Utf8 => entry.words[1] \in Texts,
           NewConstant(entry), at' \in {"reading", "unknown"}, pos' \in Nat
    PROVE  FileInv'
    <1>1. /\ class' = [class EXCEPT !.pool = Append(@, entry)]
          /\ todo' = CountDown
          /\ UNCHANGED <<stream, c_attr_to_set>> /\ UNCHANGED scanVars
        BY DEF NewConstant, Same, SameScan
    <1>2. HasParts(class', Append(class.pool, entry), class.fields, class.methods, class.attributes)
        BY <1>1 DEF FileInv, ClassOK, HasParts, ClassParts
    <1>3. PartsOK(Append(class.pool, entry), class.fields, class.methods, class.attributes)
        BY EntryAppended DEF FileInv, ClassOK
    <1>4. ClassOK'
        BY <1>2, <1>3 DEF ClassOK, HasParts
    <1>5. MethodsStay
        BY <1>2 DEF HasParts, MethodsStay
    <1>6. /\ Shaped(CountDown) /\ CountDown # << >>
          /\ OwnedRight(CountDown, class.methods, c_attr_to_set)
        BY AtTable, CountDownShaped
    <1> QED
        BY <1>1, <1>4, <1>5, <1>6, AtTable, ReadKeeps

LEMMA LayoutTyped ==
    ASSUME NEW t \in Numeric
    PROVE  Total(Layout(t)) \in Nat
    <1>1. PICK ws \in Seq({u1, u2, u4}) : ws = Layout(t) /\ Len(ws) \in {1, 2}
        <2>1. Layout(t) \in {<<u2>>, <<u2, u2>>, <<u4>>, <<u4, u4>>}
            BY DEF Layout, Numeric, References, Fours, Eights, CONSTANT_Class,
                   CONSTANT_String, CONSTANT_NameAndType
        <2>2. <<u2>> \in Seq({u1, u2, u4}) /\ Len(<<u2>>) = 1
            OBVIOUS
        <2>3. <<u2, u2>> \in Seq({u1, u2, u4}) /\ Len(<<u2, u2>>) = 2
            OBVIOUS
        <2>4. <<u4>> \in Seq({u1, u2, u4}) /\ Len(<<u4>>) = 1
            OBVIOUS
        <2>5. <<u4, u4>> \in Seq({u1, u2, u4}) /\ Len(<<u4, u4>>) = 2
            OBVIOUS
        <2>6. PICK ws : ws = Layout(t)
            OBVIOUS
        <2> QED
            BY <2>1, <2>2, <2>3, <2>4, <2>5, <2>6
    <1> DEFINE n == Len(ws)
               Q(f) == f = [k \in 0 .. n |-> IF k = 0 THEN 0 ELSE f[k - 1] + ws[k]]
               f == CHOOSE h : Q(h)
               g == [k \in 0 .. n |-> IF k = 0 THEN 0 ELSE IF k = 1 THEN ws[1] ELSE ws[1] + ws[2]]
    <1>2. Total(ws) = f[n]
        BY DEF Total
    <1>3. \A k \in 1 .. n : ws[k] \in Nat
        BY <1>1 DEF u1, u2, u4
    <1>4. n = 1 \/ n = 2
        BY <1>1
    <1> HIDE DEF n
    <1>5. Q(g)
        <2>1. ASSUME NEW k \in 0 .. n
              PROVE  g[k] = IF k = 0 THEN 0 ELSE g[k - 1] + ws[k]
            <3>1. k = 0 \/ k = 1 \/ (k = 2 /\ n = 2)
                BY <1>4
            <3>2. g[0] = 0 /\ g[1] = ws[1] /\ (n = 2 => g[2] = ws[1] + ws[2])
                BY <1>4
            <3>3. ws[1] \in Nat
                BY <1>3, <1>4
            <3> HIDE DEF g
            <3> QED
                BY <3>1, <3>2, <3>3
        <2>2. g = [k \in 0 .. n |-> g[k]]
            OBVIOUS
        <2> HIDE DEF g
        <2> QED
            BY <2>1, <2>2
    <1> HIDE DEF Q
    <1>6. Q(f)
        BY <1>5
    <1> HIDE DEF f
    <1>7. \A k \in 0 .. n : f[k] = IF k = 0 THEN 0 ELSE f[k - 1] + ws[k]
        BY <1>6 DEF Q
    <1>8. f[0] = 0 /\ f[1] = f[0] + ws[1] /\ (n = 2 => f[2] = f[1] + ws[2])
        BY <1>4, <1>7
    <1>9. ws[1] \in Nat /\ (n = 2 => ws[2] \in Nat)
        BY <1>3, <1>4
    <1>10. f[n] \in Nat
        BY <1>4, <1>8, <1>9
    <1> QED
        BY <1>1, <1>2, <1>10

LEMMA PoolKeeps ==
    ASSUME FileInv, SecondPart \/ parse_constant \/ parse_Utf8
    PROVE  FileInv'
    <1>1. CASE SecondPart
        <2>1. /\ At("constant") /\ NewConstant([tag |-> Unset]) /\ UNCHANGED <<at, pos>>
            BY <1>1 DEF SecondPart, Constant
        <2>2. [tag |-> Unset].tag # CONSTANT_Utf8
            BY DEF Unset, CONSTANT_Utf8
        <2> QED
            BY <2>1, <2>2, AtTable, ConstantKeeps
    <1>2. CASE parse_constant
        <2>1. PICK words, resolved : NewConstant([tag |-> tag, resolved |-> resolved, words |-> words])
            BY <1>2 DEF parse_constant
        <2>2. PICK e : /\ e = [tag |-> tag, resolved |-> resolved, words |-> words]
                       /\ e.tag = tag
            <3>1. PICK t : t = tag
                OBVIOUS
            <3>2. [tag |-> t, resolved |-> resolved, words |-> words].tag = t
                OBVIOUS
            <3> QED
                BY <3>1, <3>2
        <2>3. tag \in Numeric /\ tag # CONSTANT_Utf8
            BY <1>2 DEF parse_constant, Numeric, References, Fours, Eights, CONSTANT_Class,
                        CONSTANT_String, CONSTANT_NameAndType, CONSTANT_Utf8
        <2>4. pos' \in Nat /\ at' \in {"reading", "unknown"}
            <3>1. u1 + Total(Layout(tag)) \in Nat /\ 0 \in Nat
                BY <2>3, LayoutTyped DEF u1
            <3>2. GoOn(u1 + Total(Layout(tag)), 0, "reading")
                BY <1>2 DEF parse_constant
            <3> QED
                BY <3>1, <3>2, GoOnTyped DEF FileInv, Numbers
        <2>5. At("constant")
            BY <1>2 DEF parse_constant, Constant
        <2> QED
            BY <2>1, <2>2, <2>3, <2>4, <2>5, ConstantKeeps
    <1>3. CASE parse_Utf8
        <2>1. At("constant")
            BY <1>3 DEF parse_Utf8, Constant
        <2>2. PICK length \in Nat : length = read_e(pos + u1, u2)
            BY <2>1, AtTable, ReadTyped
        <2>3. PICK text \in SUBSET Texts :
                  text = {t \in Texts : Utf8[t] = Block(pos + u1 + u2, length)}
            OBVIOUS
        <2>4. CASE text = {}
            <3>1. Fail("unknown") /\ Same /\ SameScan
                BY <1>3, <2>2, <2>3, <2>4 DEF parse_Utf8
            <3> QED
                BY <3>1, FailKeeps DEF Fail, Same, SameScan
        <2>5. CASE text # {}
            <3>1. PICK t \in Texts : t = CHOOSE x \in text : TRUE
                BY <2>3, <2>5
            <3>2. /\ NewConstant([tag |-> tag, resolved |-> TRUE, words |-> <<t>>])
                  /\ GoOn(u1 + u2 + length, 0, "reading")
                BY <1>3, <2>2, <2>3, <2>5, <3>1 DEF parse_Utf8
            <3>3. [tag |-> tag, resolved |-> TRUE, words |-> <<t>>].words[1] \in Texts
                BY <3>1
            <3>4. pos' \in Nat /\ at' \in {"reading", "unknown"}
                <4>1. u1 + u2 + length \in Nat /\ 0 \in Nat
                    BY <2>2 DEF u1, u2
                <4> QED
                    BY <3>2, <4>1, GoOnTyped DEF FileInv, Numbers
            <3> QED
                BY <2>1, <3>2, <3>3, <3>4, ConstantKeeps
        <2> QED
            BY <2>4, <2>5
    <1> QED
        BY <1>1, <1>2, <1>3

LEMMA ClassHeadKeeps ==
    ASSUME FileInv, ClassHead
    PROVE  FileInv'
    <1>1. At("constant")
        BY DEF ClassHead
    <1>2. PICK v \in Seq(Nat) : /\ v = Read(<<u2, u2, u2, u2>>)
                                /\ v[4] \in Nat
        <2>1. /\ <<u2, u2, u2, u2>> \in Seq({u1, u2, u4}) /\ Len(<<u2, u2, u2, u2>>) = 4
              /\ 4 \in 1 .. 4
            OBVIOUS
        <2> QED
            BY <1>1, <2>1, AtTable, ReadNumbers DEF Read
    <1>3. /\ class' = [class EXCEPT !.access = v[1], !.this = v[2], !.super = v[3]]
          /\ todo' = << Frame("interfaces", v[4], << >>) >>
          /\ GoOn(4 * u2, 0, "reading")
          /\ UNCHANGED <<stream, c_attr_to_set>> /\ UNCHANGED scanVars
        BY <1>2 DEF ClassHead, Same, SameScan
    <1>4. HasParts(class', class.pool, class.fields, class.methods, class.attributes)
        BY <1>3 DEF FileInv, ClassOK, HasParts, ClassParts
    <1>5. ClassOK' /\ MethodsStay
        BY <1>4 DEF FileInv, ClassOK, HasParts, MethodsStay
    <1>6. pos' \in Nat /\ at' \in {"reading", "unknown"}
        <2>1. 4 * u2 \in Nat /\ 0 \in Nat
            BY DEF u2
        <2> QED
            BY <1>3, <2>1, GoOnTyped DEF FileInv, Numbers
    <1>7. PICK n \in Nat : n = v[4]
        BY <1>2
    <1>8. at = "reading" /\ n \in Int /\ todo' = << Frame("interfaces", n, << >>) >>
        BY <1>1, <1>3, <1>7, AtTable
    <1> QED
        BY <1>3, <1>5, <1>6, <1>8, TableKeeps

LEMMA InterfacesKeeps ==
    ASSUME FileInv, parse_interfaces
    PROVE  FileInv'
    <1>1. At("interfaces")
        BY DEF parse_interfaces
    <1>2. PICK n \in Nat : n = Top.n
        <2>1. Top = todo[Len(todo)] /\ Len(todo) \in DOMAIN todo /\ Top.kind = "interfaces"
              /\ Shaped(todo)
            BY <1>1, AtTable
        <2> QED
            BY <2>1 DEF Shaped
    <1>3. PICK ws \in Seq({u1, u2, u4}) : ws = [k \in 1 .. n + 1 |-> u2] /\ Len(ws) = n + 1
        <2>1. [k \in 1 .. n + 1 |-> u2] \in [1 .. n + 1 -> {u1, u2, u4}]
            OBVIOUS
        <2>2. [k \in 1 .. n + 1 |-> u2] \in Seq({u1, u2, u4})
            BY <2>1
        <2>3. DOMAIN [k \in 1 .. n + 1 |-> u2] = 1 .. n + 1
            OBVIOUS
        <2>4. Len([k \in 1 .. n + 1 |-> u2]) = n + 1
            BY <2>2, <2>3
        <2> QED
            BY <2>2, <2>4
    <1>4. PICK v \in Seq(Nat) : v = Read(ws) /\ v[n + 1] \in Nat
        <2>1. n + 1 \in 1 .. n + 1
            OBVIOUS
        <2> QED
            BY <1>1, <1>3, <2>1, AtTable, ReadNumbers DEF Read
    <1>5. /\ class' = [class EXCEPT !.interfaces = SubSeq(v, 1, n)]
          /\ todo' = << Frame("field", v[n + 1], << >>) >>
          /\ GoOn((n + 1) * u2, 0, "reading")
          /\ UNCHANGED <<stream, c_attr_to_set>> /\ UNCHANGED scanVars
        BY <1>2, <1>3, <1>4 DEF parse_interfaces, Same, SameScan
    <1>6. HasParts(class', class.pool, class.fields, class.methods, class.attributes)
        BY <1>5 DEF FileInv, ClassOK, HasParts, ClassParts
    <1>7. ClassOK' /\ MethodsStay
        BY <1>6 DEF FileInv, ClassOK, HasParts, MethodsStay
    <1>8. pos' \in Nat /\ at' \in {"reading", "unknown"}
        <2>1. (n + 1) * u2 \in Nat /\ 0 \in Nat
            BY DEF u2
        <2> QED
            BY <1>5, <2>1, GoOnTyped DEF FileInv, Numbers
    <1> QED
        BY <1>1, <1>4, <1>5, <1>7, <1>8, AtTable, TableKeeps

LEMMA ThenKeeps ==
    ASSUME FileInv, ThenMethods \/ ThenAttributes
    PROVE  FileInv'
    <1>1. at = "reading" /\ stream \in Seq(Nat)
        BY AtTable DEF ThenMethods, ThenAttributes
    <1>2. PICK n \in Nat : n = read_e(pos, u2)
        BY <1>1, ReadTyped
    <1>3. n \in Int
        BY <1>2
    <1>4. /\ GoOn(u2, 0, "reading")
          /\ UNCHANGED <<stream, class, c_attr_to_set>> /\ UNCHANGED scanVars
        BY DEF ThenMethods, ThenAttributes, Same, SameScan
    <1>5. pos' \in Nat /\ at' \in {"reading", "unknown"}
        <2>1. u2 \in Nat /\ 0 \in Nat
            BY DEF u2
        <2> QED
            BY <1>4, <2>1, GoOnTyped DEF FileInv, Numbers
    <1>6. ClassOK' /\ MethodsStay
        BY <1>4, ClassStays DEF FileInv
    <1>7. CASE ThenMethods
        <2>1. todo' = << Frame("method", n, << >>) >>
            BY <1>2, <1>7 DEF ThenMethods
        <2> QED
            BY <1>1, <1>3, <1>4, <1>5, <1>6, <2>1, TableKeeps
    <1>8. CASE ThenAttributes
        <2>1. todo' = << Frame("attribute", n, <<"class", 0>>) >>
            BY <1>2, <1>8 DEF ThenAttributes
        <2> QED
            BY <1>1, <1>3, <1>4, <1>5, <1>6, <2>1, TableKeeps
    <1> QED
        BY <1>7, <1>8

LEMMA FieldKeeps ==
    ASSUME FileInv, parse_field
    PROVE  FileInv'
    <1>1. /\ At("field") /\ at = "reading" /\ todo # << >> /\ Shaped(todo)
          /\ Top.kind # "interfaces" /\ OwnedRight(todo, class.methods, c_attr_to_set)
        BY AtTable DEF parse_field
    <1>2. PICK v \in Seq(Nat) : v = Read(<<u2, u2, u2, u2>>) /\ v[4] \in Nat
        <2>1. /\ <<u2, u2, u2, u2>> \in Seq({u1, u2, u4}) /\ Len(<<u2, u2, u2, u2>>) = 4
              /\ 4 \in 1 .. 4
            OBVIOUS
        <2> QED
            BY <1>1, <2>1, AtTable, ReadNumbers DEF Read
    <1>3. CASE ~ IsUtf8(v[2]) \/ ~ IsUtf8(v[3])
        <2>1. Fail("unknown") /\ Same /\ SameScan
            BY <1>2, <1>3 DEF parse_field
        <2> QED
            BY <2>1, FailKeeps DEF Fail, Same, SameScan
    <1>4. CASE IsUtf8(v[2]) /\ IsUtf8(v[3])
        <2> DEFINE e == [access |-> v[1], name |-> Str(v[2]), signature |-> Str(v[3]),
                         byte1 |-> 0, byte2 |-> 0]
                   k == Len(class.fields) + 1
        <2>1. /\ class' = [class EXCEPT !.fields = Append(@, e)]
              /\ todo' = Append(CountDown, Frame("attribute", v[4], <<"field", k>>))
              /\ GoOn(4 * u2, 0, "reading")
              /\ UNCHANGED <<stream, c_attr_to_set>> /\ UNCHANGED scanVars
            BY <1>2, <1>4 DEF parse_field, Same, SameScan
        <2>2. k \in Nat
            <3>1. PICK n \in Nat : n = Len(class.fields)
                BY SequenceTyped DEF FileInv, ClassOK, PartsOK
            <3> QED
                BY <3>1
        <2> HIDE DEF e, k
        <2>3. PICK n \in Nat : n = v[4]
            BY <1>2
        <2>4. PICK f \in Frames : /\ f = Frame("attribute", n, <<"field", k>>)
                                  /\ f.kind = "attribute" /\ f.owner = <<"field", k>>
            <3>1. <<"field", k>> \in Owners
                BY <2>2 DEF Owners
            <3>2. n \in Int
                BY <2>3
            <3> QED
                BY <3>1, <3>2, FrameTyped
        <2>5. \A m \in Nat : f.owner # <<"method", m>>
            BY <2>2, <2>4, OwnersDiffer
        <2>6. /\ HasParts(class', class.pool, Append(class.fields, e), class.methods, class.attributes)
            BY <2>1 DEF FileInv, ClassOK, HasParts, ClassParts
        <2>7. ClassOK' /\ MethodsStay
            BY <2>6, FieldAppended DEF FileInv, ClassOK, HasParts, MethodsStay
        <2>8. /\ Shaped(CountDown)
              /\ OwnedRight(CountDown, class.methods, c_attr_to_set)
            BY <1>1, CountDownShaped
        <2>9. /\ Shaped(todo') /\ todo' # << >>
              /\ OwnedRight(todo', class.methods, c_attr_to_set)
            <3>1. todo' = Append(CountDown, f)
                BY <2>1, <2>3, <2>4
            <3> QED
                BY <2>4, <2>5, <2>8, <3>1, PushShaped
        <2>10. pos' \in Nat /\ at' \in {"reading", "unknown"}
            <3>1. 4 * u2 \in Nat /\ 0 \in Nat
                BY DEF u2
            <3> QED
                BY <2>1, <3>1, GoOnTyped DEF FileInv, Numbers
        <2> QED
            BY <1>1, <2>1, <2>7, <2>9, <2>10, ReadKeeps
    <1> QED
        BY <1>3, <1>4

\* The owner of the attribute that is read next.
LEMMA OwnerKnown ==
    ASSUME FileInv, Attribute
    PROVE  /\ at = "reading" /\ todo # << >> /\ Shaped(todo) /\ Top.kind = "attribute"
           /\ OwnedRight(todo, class.methods, c_attr_to_set)
           /\ stream \in Seq(Nat) /\ pos \in Nat
           /\ \A m \in Nat : Top.owner = <<"method", m>> =>
                  m = Len(class.methods) /\ m >= 1 /\ c_attr_to_set = m
    <1>1. /\ at = "reading" /\ todo # << >> /\ Shaped(todo) /\ Top.kind = "attribute"
          /\ OwnedRight(todo, class.methods, c_attr_to_set)
          /\ stream \in Seq(Nat) /\ pos \in Nat
          /\ Top = todo[Len(todo)] /\ Len(todo) \in DOMAIN todo
        BY AtTable DEF Attribute
    <1>2. \A m \in Nat : todo[Len(todo)].owner = <<"method", m>> =>
              m = Len(class.methods) /\ m >= 1 /\ c_attr_to_set = m
        BY <1>1 DEF OwnedRight
    <1> QED
        BY <1>1, <1>2

\* An attribute is stored that is not the code of a method.
LEMMA AttributeKeeps ==
    ASSUME FileInv, Attribute, NEW body, NEW text, Str(NameIndex) = text, text # Code,
           class' = WithAttribute(body), todo' = CountDown, pos' \in Nat,
           at' \in {"reading", "unknown"},
           UNCHANGED <<stream, c_attr_to_set>>, UNCHANGED scanVars
    PROVE  FileInv'
    <1>1. PICK a : /\ a = [owner |-> Top.owner, name |-> Str(NameIndex),
                           length |-> AttributeLength, body |-> body]
                   /\ a.owner = Top.owner /\ a.name = Str(NameIndex)
        <2>1. PICK o, t, l : o = Top.owner /\ t = Str(NameIndex) /\ l = AttributeLength
            OBVIOUS
        <2>2. PICK a : a = [owner |-> o, name |-> t, length |-> l, body |-> body]
            OBVIOUS
        <2>3. a.owner = o /\ a.name = t
            BY <2>2
        <2> QED
            BY <2>1, <2>2, <2>3
    <1>2. class' = [class EXCEPT !.attributes = Append(@, a)]
        BY <1>1 DEF WithAttribute
    <1>3. HasParts(class', class.pool, class.fields, class.methods, Append(class.attributes, a))
        BY <1>2 DEF FileInv, ClassOK, HasParts, ClassParts
    <1>4. NotCode(class.methods, a)
        <2>1. \A m \in Nat : Top.owner = <<"method", m>> => m >= 1 /\ m <= Len(class.methods)
            BY OwnerKnown
        <2> QED
            BY <1>1, <2>1 DEF NotCode
    <1>5. PartsOK(class.pool, class.fields, class.methods, Append(class.attributes, a))
        BY <1>4, AttributeAppended DEF FileInv, ClassOK
    <1>6. ClassOK' /\ MethodsStay
        BY <1>3, <1>5 DEF ClassOK, HasParts, MethodsStay
    <1>7. /\ Shaped(todo') /\ todo' # << >>
          /\ OwnedRight(todo', class.methods, c_attr_to_set)
        BY OwnerKnown, CountDownShaped
    <1> QED
        BY <1>6, <1>7, OwnerKnown, ReadKeeps

LEMMA PlainAttributeKeeps ==
    ASSUME FileInv, parse_ConstantValue_attribute \/ SkipAttribute
    PROVE  FileInv'
    <1>1. Attribute /\ stream \in Seq(Nat) /\ pos \in Nat
        BY OwnerKnown DEF parse_ConstantValue_attribute, SkipAttribute
    <1>2. /\ todo' = CountDown
          /\ UNCHANGED <<stream, c_attr_to_set>> /\ UNCHANGED scanVars
        BY DEF parse_ConstantValue_attribute, SkipAttribute, Same, SameScan
    <1>3. PICK text : text = Str(NameIndex)
        OBVIOUS
    <1>4. text # Code
        BY <1>3, FileAssumption DEF parse_ConstantValue_attribute, SkipAttribute, NameIs
    <1>5. \E body : class' = WithAttribute(body)
        BY DEF parse_ConstantValue_attribute, SkipAttribute
    <1>6. pos' \in Nat /\ at' \in {"reading", "unknown"}
        <2>1. CASE parse_ConstantValue_attribute
            <3>1. u2 + u4 + u2 \in Nat /\ 0 \in Nat
                BY DEF u2, u4
            <3> QED
                BY <1>1, <2>1, <3>1, GoOnTyped DEF parse_ConstantValue_attribute
        <2>2. CASE SkipAttribute
            <3>1. PICK l \in Nat : l = AttributeLength
                BY <1>1, ReadTyped DEF AttributeLength
            <3>2. u2 + u4 \in Nat
                BY DEF u2, u4
            <3> QED
                BY <1>1, <2>2, <3>1, <3>2, GoOnTyped DEF SkipAttribute
        <2> QED
            BY <2>1, <2>2
    <1> QED
        BY <1>1, <1>2, <1>3, <1>4, <1>5, <1>6, AttributeKeeps

LEMMA AttributesDoneKeeps ==
    ASSUME FileInv, AttributesDone
    PROVE  FileInv'
    <1>1. /\ at = "reading" /\ todo # << >> /\ Shaped(todo)
          /\ OwnedRight(todo, class.methods, c_attr_to_set) /\ pos \in Nat
        BY AtTable DEF AttributesDone
    <1>2. /\ Below # << >> /\ todo' = Below
          /\ UNCHANGED <<at, pos, class, c_attr_to_set, stream>> /\ UNCHANGED scanVars
        BY DEF AttributesDone, Same, SameScan
    <1>3. ClassOK' /\ MethodsStay
        BY <1>2, ClassStays DEF FileInv
    <1>4. Shaped(todo') /\ todo' # << >> /\ OwnedRight(todo', class.methods, c_attr_to_set)
        BY <1>1, <1>2, BelowShaped
    <1> QED
        BY <1>1, <1>2, <1>3, <1>4, ReadKeeps

LEMMA FinishKeeps ==
    ASSUME FileInv, Finish
    PROVE  FileInv'
    <1>1. /\ at = "reading" /\ todo # << >> /\ Shaped(todo)
          /\ OwnedRight(todo, class.methods, c_attr_to_set) /\ pos \in Nat
        BY AtTable DEF Finish
    <1>2. CASE Named(class.this)
        <2>1. /\ class' = [class EXCEPT !.name = Str(class.pool[class.this].words[1])]
              /\ at' = "parsed"
              /\ UNCHANGED <<pos, todo, c_attr_to_set, stream>> /\ UNCHANGED scanVars
            BY <1>2 DEF Finish, Same, SameScan
        <2>2. HasParts(class', class.pool, class.fields, class.methods, class.attributes)
            BY <2>1 DEF FileInv, ClassOK, HasParts, ClassParts
        <2>3. ClassOK' /\ MethodsStay
            BY <2>2 DEF FileInv, ClassOK, HasParts, MethodsStay
        <2> QED
            BY <1>1, <2>1, <2>3, ReadKeeps
    <1>3. CASE ~ Named(class.this)
        BY <1>3, FailKeeps DEF Finish, Fail, Same, SameScan
    <1> QED
        BY <1>2, <1>3

\* The steps that end the program.
LEMMA FailsKeep ==
    ASSUME FileInv, BadMagic \/ WrongTag \/ WrongName \/ ScanFails
    PROVE  FileInv'
    <1>1. CASE BadMagic
        BY <1>1, FailKeeps DEF BadMagic, Fail, SameScan
    <1>2. CASE WrongTag
        BY <1>2, FailKeeps DEF WrongTag, Fail, Same, SameScan
    <1>3. CASE WrongName
        BY <1>3, FailKeeps DEF WrongName, Fail, Same, SameScan
    <1>4. CASE ScanFails
        BY <1>4, FailKeeps DEF ScanFails, Fail, Same, SameScan
    <1> QED
        BY <1>1, <1>2, <1>3, <1>4

----------------------------------------------------------------------------
(* Methods. *)

\* One value of a method is set.
WithWords(ms, j, n) == [ms EXCEPT ![j].nargs = n]
WithShortcut(ms, j, x) == [ms EXCEPT ![j].c_attr = x]

LEMMA MethodSet ==
    ASSUME NEW d \in Methods, NEW n \in Nat
    PROVE  /\ [d EXCEPT !.nargs = n] \in Methods
           /\ [d EXCEPT !.nargs = n].nargs = n
           /\ [d EXCEPT !.nargs = n].signature = d.signature
           /\ [d EXCEPT !.nargs = n].c_attr = d.c_attr
           /\ [d EXCEPT !.c_attr = n] \in Methods
           /\ [d EXCEPT !.c_attr = n].c_attr = n
           /\ [d EXCEPT !.c_attr = n].signature = d.signature
           /\ [d EXCEPT !.c_attr = n].nargs = d.nargs
    <1>1. PICK f : f = [d EXCEPT !.nargs = n]
        OBVIOUS
    <1>2. f \in Methods /\ f.nargs = n /\ f.signature = d.signature /\ f.c_attr = d.c_attr
        BY <1>1 DEF Methods
    <1>3. PICK g : g = [d EXCEPT !.c_attr = n]
        OBVIOUS
    <1>4. g \in Methods /\ g.c_attr = n /\ g.signature = d.signature /\ g.nargs = d.nargs
        BY <1>3 DEF Methods
    <1> QED
        BY <1>1, <1>2, <1>3, <1>4

LEMMA MethodsSet ==
    ASSUME NEW ms \in Seq(Methods), NEW j, NEW n \in Nat
    PROVE  /\ WithWords(ms, j, n) \in Seq(Methods)
           /\ Len(WithWords(ms, j, n)) = Len(ms)
           /\ \A m \in DOMAIN ms :
                 /\ WithWords(ms, j, n)[m].signature = ms[m].signature
                 /\ WithWords(ms, j, n)[m].c_attr = ms[m].c_attr
                 /\ WithWords(ms, j, n)[m].nargs = IF m = j THEN n ELSE ms[m].nargs
           /\ WithShortcut(ms, j, n) \in Seq(Methods)
           /\ Len(WithShortcut(ms, j, n)) = Len(ms)
           /\ \A m \in DOMAIN ms :
                 /\ WithShortcut(ms, j, n)[m].signature = ms[m].signature
                 /\ WithShortcut(ms, j, n)[m].nargs = ms[m].nargs
           /\ ShortcutSet(WithShortcut(ms, j, n), ms, j, n)
    <1>1. PICK k \in Nat : k = Len(ms) /\ DOMAIN ms = 1 .. k
        OBVIOUS
    <1>2. \A m \in 1 .. k : ms[m] \in Methods
        BY <1>1
    <1>3. PICK q : q = WithWords(ms, j, n)
        OBVIOUS
    <1>4. /\ DOMAIN q = 1 .. k
          /\ \A m \in 1 .. k : q[m] = IF m = j THEN [ms[m] EXCEPT !.nargs = n] ELSE ms[m]
          /\ q = [m \in 1 .. k |-> q[m]]
        BY <1>1, <1>3 DEF WithWords
    <1>5. \A m \in 1 .. k : /\ q[m] \in Methods /\ q[m].signature = ms[m].signature
                            /\ q[m].c_attr = ms[m].c_attr
                            /\ q[m].nargs = IF m = j THEN n ELSE ms[m].nargs
        <2> SUFFICES ASSUME NEW m \in 1 .. k
                     PROVE  /\ q[m] \in Methods /\ q[m].signature = ms[m].signature
                            /\ q[m].c_attr = ms[m].c_attr
                            /\ q[m].nargs = IF m = j THEN n ELSE ms[m].nargs
            OBVIOUS
        <2>1. PICK d \in Methods : d = ms[m]
            BY <1>2
        <2>2. CASE m = j
            <3>1. PICK e : e = [d EXCEPT !.nargs = n]
                OBVIOUS
            <3>2. /\ e \in Methods /\ e.nargs = n /\ e.signature = d.signature
                  /\ e.c_attr = d.c_attr
                BY <3>1, MethodSet
            <3>3. q[m] = e
                BY <2>1, <2>2, <3>1, <1>4
            <3> QED
                BY <2>1, <2>2, <3>2, <3>3
        <2>3. CASE m # j
            <3>1. q[m] = d
                BY <2>1, <2>3, <1>4
            <3> QED
                BY <2>1, <2>3, <3>1
        <2> QED
            BY <2>2, <2>3
    <1>6. q \in [1 .. k -> Methods]
        BY <1>4, <1>5
    <1>7. q \in Seq(Methods)
        BY <1>1, <1>6
    <1>8. Len(q) = k
        BY <1>1, <1>4, <1>7
    <1>9. PICK r : r = WithShortcut(ms, j, n)
        OBVIOUS
    <1>10. /\ DOMAIN r = 1 .. k
           /\ \A m \in 1 .. k : r[m] = IF m = j THEN [ms[m] EXCEPT !.c_attr = n] ELSE ms[m]
           /\ r = [m \in 1 .. k |-> r[m]]
        BY <1>1, <1>9 DEF WithShortcut
    <1>11. \A m \in 1 .. k : /\ r[m] \in Methods /\ r[m].signature = ms[m].signature
                             /\ r[m].nargs = ms[m].nargs
                             /\ r[m].c_attr = IF m = j THEN n ELSE ms[m].c_attr
        <2> SUFFICES ASSUME NEW m \in 1 .. k
                     PROVE  /\ r[m] \in Methods /\ r[m].signature = ms[m].signature
                            /\ r[m].nargs = ms[m].nargs
                            /\ r[m].c_attr = IF m = j THEN n ELSE ms[m].c_attr
            OBVIOUS
        <2>1. PICK d \in Methods : d = ms[m]
            BY <1>2
        <2>2. CASE m = j
            <3>1. PICK e : e = [d EXCEPT !.c_attr = n]
                OBVIOUS
            <3>2. /\ e \in Methods /\ e.c_attr = n /\ e.signature = d.signature
                  /\ e.nargs = d.nargs
                BY <3>1, MethodSet
            <3>3. r[m] = e
                BY <2>1, <2>2, <3>1, <1>10
            <3> QED
                BY <2>1, <2>2, <3>2, <3>3
        <2>3. CASE m # j
            <3>1. r[m] = d
                BY <2>1, <2>3, <1>10
            <3> QED
                BY <2>1, <2>3, <3>1
        <2> QED
            BY <2>2, <2>3
    <1>12. r \in [1 .. k -> Methods]
        BY <1>10, <1>11
    <1>13. r \in Seq(Methods)
        BY <1>1, <1>12
    <1>14. Len(r) = k
        BY <1>1, <1>10, <1>13
    <1>15. ShortcutSet(r, ms, j, n)
        BY <1>1, <1>11 DEF ShortcutSet
    <1> QED
        BY <1>1, <1>3, <1>5, <1>7, <1>8, <1>9, <1>11, <1>13, <1>14, <1>15

LEMMA MethodRead ==
    ASSUME FileInv, parse_method
    PROVE  FileInv'
    <1>1. /\ At("method") /\ at = "reading" /\ todo # << >> /\ Shaped(todo)
          /\ Top.kind = "method" /\ Len(todo) = 1 /\ Top = todo[Len(todo)] /\ Len(todo) \in DOMAIN todo
          /\ stream \in Seq(Nat) /\ pos \in Nat
        BY AtTable DEF parse_method
    <1>2. PICK v \in Seq(Nat) : v = Read(<<u2, u2, u2>>) /\ v[1] \in Nat
        <2>1. <<u2, u2, u2>> \in Seq({u1, u2, u4}) /\ Len(<<u2, u2, u2>>) = 3 /\ 1 \in 1 .. 3
            OBVIOUS
        <2> QED
            BY <1>1, <2>1, ReadNumbers DEF Read
    <1>3. CASE ~ IsUtf8(v[2]) \/ ~ IsUtf8(v[3])
        <2>1. Fail("unknown") /\ Same /\ SameScan
            BY <1>2, <1>3 DEF parse_method
        <2> QED
            BY <2>1, FailKeeps DEF Fail, Same, SameScan
    <1>4. CASE IsUtf8(v[2]) /\ IsUtf8(v[3])
        <2>1. PICK a \in Nat, s \in Texts, t \in Texts : a = v[1] /\ s = Str(v[2]) /\ t = Str(v[3])
            BY <1>2, <1>4 DEF IsUtf8, Str, FileInv, ClassOK, PartsOK, EntriesOK
        <2>2. PICK d : d = [access |-> a, name |-> s, signature |-> t,
                            nargs |-> Unset, c_attr |-> Unset]
            OBVIOUS
        <2>3. d \in Methods /\ d.c_attr = Unset /\ d.signature = t
            BY <2>2 DEF Methods
        <2>4. /\ class' = [class EXCEPT !.methods = Append(@, d)]
              /\ calculate_nargs(t)
              /\ GoOn(3 * u2, 0, "signature")
              /\ UNCHANGED <<stream, todo, c_attr_to_set>>
            BY <1>2, <1>4, <2>1, <2>2 DEF parse_method, Same
        <2>5. [NextScan]_scanVars
            BY <2>1, <2>4 DEF NextScan, Texts
        <2>6. ScanInv' /\ i' \in Nat /\ nargs' \in Nat
            BY <2>5, ScanStep, ScanTyped DEF FileInv, Numbers
        <2>7. pos' \in Nat /\ at' \in {"signature", "unknown"}
            <3>1. 3 * u2 \in Nat /\ 0 \in Nat
                BY DEF u2
            <3> QED
                BY <1>1, <2>4, <3>1, GoOnTyped
        <2>8. HasParts(class', class.pool, class.fields, Append(class.methods, d), class.attributes)
            BY <2>4 DEF FileInv, ClassOK, HasParts, ClassParts
        <2>9. PartsOK(class.pool, class.fields, Append(class.methods, d), class.attributes)
            BY <2>3, MethodAppended DEF FileInv, ClassOK
        <2>10. ClassOK'
            BY <2>8, <2>9 DEF ClassOK, HasParts
        <2>11. class.methods \in Seq(Methods)
            BY DEF FileInv, ClassOK, PartsOK
        <2>12. PICK n \in Nat : n = Len(class.methods) /\ DOMAIN class.methods = 1 .. n
            BY <2>11
        <2>13. PICK q : q = Append(class.methods, d) /\ class'.methods = q
            BY <2>8 DEF HasParts
        <2>14. q \in Seq(Methods) /\ Len(q) = n + 1
            BY <2>3, <2>11, <2>12, <2>13
        <2>15. DOMAIN q = 1 .. n + 1 /\ q # << >>
            BY <2>12, <2>14
        <2>16. q[n + 1] = d
            BY <2>3, <2>11, <2>12, <2>13
        <2>17. \A m \in 1 .. n : q[m] = class.methods[m]
            BY <2>3, <2>11, <2>12, <2>13
        <2>18. Numbers'
            BY <2>4, <2>6, <2>7 DEF FileInv, Numbers
        <2>19. FramesOK'
            BY <1>1, <2>4, <2>13, <2>15 DEF FramesOK
        <2>20. OwnersOK'
            <3>1. DOMAIN todo = {1}
                BY <1>1 DEF Shaped
            <3>2. todo[1].owner = << >>
                BY <1>1, <3>1 DEF Shaped
            <3>3. \A m \in Nat : todo[1].owner # <<"method", m>>
                BY <3>2, OwnersDiffer, 0 \in Nat
            <3>4. OwnedRight(todo, q, c_attr_to_set)
                BY <3>1, <3>3 DEF OwnedRight
            <3> QED
                BY <2>4, <2>13, <3>4 DEF OwnersOK
        <2>21. WordsOK'
            <3>1. \A m \in 1 .. n : CountedRight(class.methods[m])
                BY <1>1, <2>12 DEF FileInv, WordsOK
            <3>2. \A m \in 1 .. n + 1 : m # n + 1 => m \in 1 .. n
                BY <2>12
            <3>3. signature' = t
                BY <2>4 DEF calculate_nargs
            <3>4. \A m \in 1 .. n + 1 : m # n + 1 => CountedRight(q[m])
                BY <2>17, <3>1, <3>2
            <3> QED
                BY <2>3, <2>7, <2>13, <2>14, <2>15, <2>16, <3>3, <3>4 DEF WordsOK, CountedRight
        <2> QED
            BY <2>6, <2>10, <2>18, <2>19, <2>20, <2>21 DEF FileInv
    <1> QED
        BY <1>3, <1>4

\* The next character of its signature.
LEMMA ScanSignatureKeeps ==
    ASSUME FileInv, ScanSignature
    PROVE  FileInv'
    <1>1. at = "signature" /\ Scan /\ UNCHANGED fileVars
        BY DEF ScanSignature
    <1>2. [NextScan]_scanVars
        BY <1>1 DEF NextScan
    <1>3. ScanInv' /\ i' \in Nat /\ nargs' \in Nat
        BY <1>2, ScanStep, ScanTyped DEF FileInv, Numbers
    <1>4. signature' = signature
        BY <1>1 DEF Scan, Close, ClassPart, ArrayPart, Parameter, Invalid, Turn
    <1>5. Numbers' /\ FramesOK' /\ OwnersOK' /\ ClassOK'
        BY <1>1, <1>3 DEF fileVars, FileInv, Numbers, FramesOK, OwnersOK, OwnedRight, ClassOK,
                         HasParts, PartsOK
    <1>6. WordsOK'
        BY <1>1, <1>4 DEF fileVars, FileInv, WordsOK, CountedRight
    <1> QED
        BY <1>3, <1>5, <1>6 DEF FileInv

\* What was counted is stored, and the attributes of the method begin.
LEMMA MethodAttributesKeeps ==
    ASSUME FileInv, MethodAttributes
    PROVE  FileInv'
    <1>1. /\ at = "signature" /\ scan = "counted" /\ Return /\ Shaped(todo) /\ todo # << >>
          /\ Len(todo) = 1 /\ todo[1].kind = "method" /\ class.methods # << >>
          /\ stream \in Seq(Nat) /\ pos \in Nat /\ nargs \in Nat
        BY DEF MethodAttributes, Return, FileInv, FramesOK, Numbers
    <1>2. class.methods \in Seq(Methods)
        BY DEF FileInv, ClassOK, PartsOK
    <1>3. PICK j \in Nat \ {0} : j = Len(class.methods) /\ DOMAIN class.methods = 1 .. j
        BY <1>1, <1>2
    <1>4. PICK n \in Nat : n = read_e(pos, u2)
        BY <1>1, ReadTyped
    <1>5. PICK w \in Nat : w = nargs
        BY <1>1
    <1>6. /\ class' = [class EXCEPT !.methods[j].nargs = w]
          /\ c_attr_to_set' = j
          /\ todo' = Append(CountDown, Frame("attribute", n, <<"method", j>>))
          /\ GoOn(u2, 0, "reading")
          /\ UNCHANGED stream
        BY <1>3, <1>4, <1>5 DEF MethodAttributes, TargetOf, Same
    <1>7. [NextScan]_scanVars
        BY <1>1 DEF NextScan
    <1>8. ScanInv' /\ i' \in Nat /\ nargs' \in Nat
        BY <1>7, ScanStep, ScanTyped DEF FileInv, Numbers
    <1>9. pos' \in Nat /\ at' \in {"reading", "unknown"}
        <2>1. u2 \in Nat /\ 0 \in Nat
            BY DEF u2
        <2> QED
            BY <1>1, <1>6, <2>1, GoOnTyped
    <1>10. PICK q : q = WithWords(class.methods, j, w)
        OBVIOUS
    <1>11. HasParts(class', class.pool, class.fields, q, class.attributes)
        BY <1>6, <1>10 DEF FileInv, ClassOK, HasParts, ClassParts, WithWords
    <1>12. /\ q \in Seq(Methods) /\ Len(q) = j
           /\ \A m \in 1 .. j : /\ q[m].signature = class.methods[m].signature
                                /\ q[m].c_attr = class.methods[m].c_attr
                                /\ q[m].nargs = IF m = j THEN w ELSE class.methods[m].nargs
        BY <1>2, <1>3, <1>10, MethodsSet
    <1>13. PartsOK(class.pool, class.fields, q, class.attributes)
        BY <1>3, <1>12, MethodChanged DEF FileInv, ClassOK
    <1>14. ClassOK'
        BY <1>11, <1>13 DEF ClassOK, HasParts
    <1>15. Numbers'
        BY <1>3, <1>6, <1>8, <1>9 DEF FileInv, Numbers
    <1>16. PICK f \in Frames : /\ f = Frame("attribute", n, <<"method", j>>)
                               /\ f.kind = "attribute" /\ f.owner = <<"method", j>>
        <2>1. <<"method", j>> \in Owners
            BY DEF Owners
        <2>2. n \in Int
            BY <1>4
        <2> QED
            BY <2>1, <2>2, FrameTyped
    <1>17. \A m \in Nat : f.owner = <<"method", m>> => m = j
        <2>1. j \in Nat
            OBVIOUS
        <2> QED
            BY <1>16, <2>1, OwnersDiffer
    <1>18. /\ Shaped(CountDown) /\ OwnedRight(CountDown, q, j)
        <2>1. DOMAIN todo = {1}
            BY <1>1 DEF Shaped
        <2>2. todo[1].owner = << >>
            BY <1>1, <2>1 DEF Shaped
        <2>3. \A m \in Nat : todo[1].owner # <<"method", m>>
            BY <2>2, OwnersDiffer, 0 \in Nat
        <2>4. OwnedRight(todo, q, j)
            BY <2>1, <2>3 DEF OwnedRight
        <2>5. Top.kind # "interfaces"
            BY <1>1, TopFrame DEF Shaped
        <2> QED
            BY <1>1, <2>4, <2>5, CountDownShaped
    <1>19. Shaped(todo') /\ todo' # << >> /\ OwnedRight(todo', q, j)
        <2>1. todo' = Append(CountDown, f)
            BY <1>6, <1>16
        <2>2. j >= 1
            OBVIOUS
        <2> QED
            BY <1>12, <1>16, <1>17, <1>18, <2>1, <2>2, PushShaped
    <1>20. FramesOK'
        BY <1>9, <1>19 DEF FramesOK
    <1>21. OwnersOK'
        BY <1>6, <1>11, <1>19 DEF OwnersOK, HasParts
    <1>22. WordsOK'
        <2>1. /\ signature = class.methods[j].signature
              /\ \A m \in 1 .. j : m # j => CountedRight(class.methods[m])
            BY <1>1, <1>3 DEF FileInv, WordsOK
        <2>2. signature \in Descriptors => w = WordsBefore[signature][Count(signature) + 1]
            BY <1>1, <1>5 DEF FileInv, ScanInv, NargsRight
        <2>3. \A m \in 1 .. j : CountedRight(q[m])
            BY <1>12, <2>1, <2>2 DEF CountedRight
        <2>4. class'.methods = q /\ DOMAIN q = 1 .. j
            BY <1>11, <1>12 DEF HasParts
        <2> QED
            BY <1>9, <2>3, <2>4 DEF WordsOK
    <1> QED
        BY <1>8, <1>14, <1>15, <1>20, <1>21, <1>22 DEF FileInv

----------------------------------------------------------------------------
(* Code. *)

\* The class with its new attribute, and the shortcut to it.
LEMMA CodeStored ==
    ASSUME ClassOK, NEW a, NEW j, NEW x,
           class' = [[class EXCEPT !.attributes = Append(@, a)] EXCEPT !.methods[j].c_attr = x]
    PROVE  HasParts(class', class.pool, class.fields, WithShortcut(class.methods, j, x),
                    Append(class.attributes, a))
    <1>1. PICK c : c = [class EXCEPT !.attributes = Append(@, a)]
        OBVIOUS
    <1>2. HasParts(c, class.pool, class.fields, class.methods, Append(class.attributes, a))
        BY <1>1 DEF ClassOK, HasParts, ClassParts
    <1>3. class' = [c EXCEPT !.methods[j].c_attr = x]
        BY <1>1
    <1> QED
        BY <1>2, <1>3 DEF HasParts, ClassParts, WithShortcut

LEMMA ElsewhereIsNoMethod ==
    /\ \A m \in Nat : m >= 1 => m \notin Elsewhere
    /\ Stale \in Elsewhere /\ Dangling \in Elsewhere /\ NULL \in Elsewhere
    /\ Stale \notin Nat /\ Stale # Dangling /\ Stale # NULL
    BY DEF Elsewhere, NULL, Stale, Dangling

LEMMA CodeKeeps ==
    ASSUME FileInv, parse_Code_attribute
    PROVE  FileInv'
    <1>1. /\ Attribute /\ at = "reading" /\ todo # << >> /\ Shaped(todo) /\ Top.kind = "attribute"
          /\ OwnedRight(todo, class.methods, c_attr_to_set)
          /\ stream \in Seq(Nat) /\ pos \in Nat
          /\ \A m \in Nat : Top.owner = <<"method", m>> =>
                 m = Len(class.methods) /\ m >= 1 /\ c_attr_to_set = m
        BY OwnerKnown DEF parse_Code_attribute
    <1>2. PICK v \in Seq(Nat) : v = ReadFrom(pos + u2 + u4, <<u2, u2, u4>>) /\ v[3] \in Nat
        <2>1. <<u2, u2, u4>> \in Seq({u1, u2, u4}) /\ Len(<<u2, u2, u4>>) = 3 /\ 3 \in 1 .. 3
            OBVIOUS
        <2> QED
            BY <1>1, <2>1, ReadNumbers
    <1>3. PICK code \in Nat : code = pos + u2 + u4 + 2 * u2 + u4
        BY <1>1 DEF u2, u4
    <1>4. PICK l \in Nat : l = v[3]
        BY <1>2
    <1>5. PICK exceptions \in Nat : exceptions = read_e(code + l, u2)
        BY <1>1, ReadTyped
    <1>6. PICK behind \in Nat : behind = code + l + u2 + exceptions * ExceptionEntry
        BY DEF u2, ExceptionEntry
    <1>7. PICK n \in Nat : n = read_e(behind, u2)
        BY <1>1, ReadTyped
    <1>8. PICK x \in Nat : x = New /\ x = Len(class.attributes) + 1
        <2>1. Len(class.attributes) \in Nat
            BY SequenceTyped DEF FileInv, ClassOK, PartsOK, AttributesOK
        <2> QED
            BY <2>1 DEF New
    <1>9. PICK body : body = <<v[1], v[2], Block(code, l)>>
        OBVIOUS
    <1>10. PICK a : /\ a = [owner |-> Top.owner, name |-> Str(NameIndex),
                            length |-> AttributeLength, body |-> body]
                    /\ a.owner = Top.owner /\ a.name = Code
        <2>1. Str(NameIndex) = Code
            BY DEF parse_Code_attribute, NameIs
        <2>2. PICK o, b : o = Top.owner /\ b = AttributeLength
            OBVIOUS
        <2>3. PICK a : a = [owner |-> o, name |-> Code, length |-> b, body |-> body]
            OBVIOUS
        <2>4. a.owner = o /\ a.name = Code
            BY <2>3
        <2> QED
            BY <2>1, <2>2, <2>3, <2>4
    <1>11. PICK parsed : /\ parsed = WithAttribute(body)
                         /\ parsed = [class EXCEPT !.attributes = Append(@, a)]
        BY <1>10 DEF WithAttribute
    <1>12. /\ class' = IF c_attr_to_set \in Elsewhere THEN parsed
                       ELSE [parsed EXCEPT !.methods[c_attr_to_set].c_attr = x]
           /\ todo' = Append(CountDown, Frame("attribute", n, <<"code", x>>))
           /\ GoOn(behind + u2 - pos, 0, IF c_attr_to_set = Dangling THEN "unknown" ELSE "reading")
           /\ UNCHANGED <<stream, c_attr_to_set>> /\ UNCHANGED scanVars
        BY <1>2, <1>3, <1>4, <1>5, <1>6, <1>7, <1>8, <1>9, <1>11 DEF parse_Code_attribute, Same, SameScan
    <1>13. pos' \in Nat /\ at' \in {"reading", "unknown"}
        <2>1. pos' = pos + (behind + u2 - pos) + 0 /\ at' \in {"reading", "unknown"}
            BY <1>12 DEF GoOn
        <2> QED
            BY <1>1, <2>1 DEF u2
    <1>14. PICK f \in Frames : /\ f = Frame("attribute", n, <<"code", x>>)
                               /\ f.kind = "attribute" /\ f.owner = <<"code", x>>
        <2>1. <<"code", x>> \in Owners
            BY DEF Owners
        <2>2. n \in Int
            OBVIOUS
        <2> QED
            BY <2>1, <2>2, FrameTyped
    <1>15. \A m \in Nat : f.owner # <<"method", m>>
        BY <1>14, OwnersDiffer
    <1>16. /\ Shaped(CountDown) /\ OwnedRight(CountDown, class.methods, c_attr_to_set)
        BY <1>1, CountDownShaped
    <1>17. /\ Shaped(todo') /\ todo' # << >> /\ OwnedRight(todo', class.methods, c_attr_to_set)
        <2>1. todo' = Append(CountDown, f)
            BY <1>12, <1>14
        <2> QED
            BY <1>14, <1>15, <1>16, <2>1, PushShaped
    <1>18. ClassOK' /\ MethodsStay
        <2>1. CASE c_attr_to_set \in Elsewhere
            <3>1. HasParts(class', class.pool, class.fields, class.methods, Append(class.attributes, a))
                BY <1>11, <1>12, <2>1 DEF FileInv, ClassOK, HasParts, ClassParts
            <3>2. NotCode(class.methods, a)
                <4>1. \A m \in Nat : m >= 1 => m \notin Elsewhere
                    BY ElsewhereIsNoMethod
                <4> QED
                    BY <1>1, <1>10, <2>1, <4>1 DEF NotCode
            <3>3. PartsOK(class.pool, class.fields, class.methods, Append(class.attributes, a))
                BY <3>2, AttributeAppended DEF FileInv, ClassOK
            <3> QED
                BY <3>1, <3>3 DEF ClassOK, HasParts, MethodsStay
        <2>2. CASE c_attr_to_set \notin Elsewhere
            <3>1. PICK j \in Nat : j = c_attr_to_set
                BY <2>2 DEF FileInv, Numbers
            <3>2. class' = [[class EXCEPT !.attributes = Append(@, a)] EXCEPT !.methods[j].c_attr = x]
                BY <1>11, <1>12, <2>2, <3>1
            <3>3. PICK q : q = WithShortcut(class.methods, j, x)
                OBVIOUS
            <3>4. HasParts(class', class.pool, class.fields, q, Append(class.attributes, a))
                BY <3>2, <3>3, CodeStored DEF FileInv
            <3>5. class.methods \in Seq(Methods)
                BY DEF FileInv, ClassOK, PartsOK
            <3>6. /\ q \in Seq(Methods) /\ Len(q) = Len(class.methods)
                  /\ \A m \in DOMAIN class.methods :
                        /\ q[m].signature = class.methods[m].signature
                        /\ q[m].nargs = class.methods[m].nargs
                  /\ ShortcutSet(q, class.methods, j, x)
                BY <3>3, <3>5, MethodsSet
            <3>7. CodeOf(class.methods, a, j)
                <4>1. Len(class.methods) \in Nat
                    BY <3>5
                <4> QED
                    BY <1>1, <1>10, <3>1, <4>1 DEF CodeOf
            <3>8. PartsOK(class.pool, class.fields, q, Append(class.attributes, a))
                BY <1>8, <3>6, <3>7, CodeAppended DEF FileInv, ClassOK
            <3> QED
                BY <3>4, <3>6, <3>8 DEF ClassOK, HasParts, MethodsStay
        <2> QED
            BY <2>1, <2>2
    <1> QED
        BY <1>1, <1>12, <1>13, <1>17, <1>18, ReadKeeps

----------------------------------------------------------------------------
(* A file is opened, and its class delivered. *)

LEMMA FreshKeeps ==
    ASSUME FileInv, class' = NoClass, todo' = << >>, pos' = 1, at' \in {"idle", "start", "exit"},
           stream' \in Seq(Nat), c_attr_to_set' \in Elsewhere \cup Nat, UNCHANGED scanVars
    PROVE  FileInv'
    <1>1. ScanInv'
        BY ScanStep DEF FileInv
    <1>2. Numbers'
        BY DEF FileInv, Numbers, scanVars
    <1>3. << >> \in Seq(Frames) /\ DOMAIN << >> = {}
        BY EmptySequence
    <1>4. FramesOK'
        BY <1>3 DEF FramesOK, Shaped
    <1>5. OwnersOK'
        BY <1>3 DEF OwnersOK, OwnedRight
    <1>6. HasParts(class', << >>, << >>, << >>, << >>)
        BY DEF HasParts, NoClass, ClassParts
    <1>7. ClassOK'
        BY <1>6, NoParts DEF ClassOK, HasParts
    <1>8. WordsOK'
        BY <1>3, <1>6 DEF WordsOK, HasParts
    <1> QED
        BY <1>1, <1>2, <1>4, <1>5, <1>7, <1>8 DEF FileInv

LEMMA LeastNumber ==
    ASSUME NEW X \in SUBSET Nat, X # {}
    PROVE  \E n \in X : \A m \in X : n <= m
    <1> DEFINE less == {ss \in Nat \X Nat : ss[1] < ss[2]}
    <1>1. IsWellFoundedOn(less, Nat)
        BY NatLessThanWellFounded DEF OpToRel
    <1>2. PICK n \in X : \A m \in X : <<m, n>> \notin less
        <2> HIDE DEF less
        <2> QED
            BY <1>1, WFMin
    <1>3. ASSUME NEW m \in X
          PROVE  n <= m
        <2>1. m \in Nat /\ n \in Nat /\ <<m, n>> \in Nat \X Nat /\ <<m, n>> \notin less
            BY <1>2
        <2>2. ~ (m < n)
            BY <2>1
        <2> QED
            BY <2>1, <2>2
    <1> QED
        BY <1>3

LEMMA LoadKeeps ==
    ASSUME FileInv, NEW name, load_class(name)
    PROVE  FileInv'
    <1>1. /\ at' \in {"start", "exit"} /\ class' = NoClass /\ todo' = << >> /\ pos' = 1
          /\ UNCHANGED c_attr_to_set /\ UNCHANGED scanVars
        BY DEF load_class, SameScan
    <1>2. stream' \in Seq(Nat)
        <2>1. CASE Found(name) = {}
            BY <2>1 DEF load_class, FileInv, Numbers
        <2>2. CASE Found(name) # {}
            <3>1. Found(name) \in SUBSET Nat
                BY ClasspathAssumption DEF Found
            <3>2. PICK d \in Found(name) : \A e \in Found(name) : d <= e
                BY <2>2, <3>1, LeastNumber
            <3>3. First(Found(name)) \in Found(name)
                BY <3>2 DEF First
            <3>4. file' = <<Classpaths[First(Found(name))], name>> /\ stream' = Content[file']
                BY <2>2 DEF load_class
            <3>5. file' \in Files
                BY <3>3, <3>4 DEF Found
            <3>6. PICK s \in Seq(0 .. ByteValues - 1) : s = stream'
                BY <3>4, <3>5, FileAssumption
            <3>7. 0 .. ByteValues - 1 \subseteq Nat
                BY FileAssumption
            <3>8. PICK n \in Nat : n = Len(s) /\ DOMAIN s = 1 .. n
                BY <3>6
            <3>9. \A k \in 1 .. n : s[k] \in Nat
                <4> DEFINE S == 0 .. ByteValues - 1
                <4>1. S \subseteq Nat /\ s \in Seq(S)
                    BY <3>6, <3>7
                <4> HIDE DEF S
                <4>2. \A k \in 1 .. n : s[k] \in S
                    BY <3>8, <4>1
                <4> QED
                    BY <4>1, <4>2
            <3>10. s = [k \in 1 .. n |-> s[k]]
                BY <3>6, <3>8
            <3>11. s \in [1 .. n -> Nat]
                BY <3>9, <3>10
            <3> QED
                BY <3>6, <3>11
        <2> QED
            BY <2>1, <2>2
    <1> QED
        BY <1>1, <1>2, FreshKeeps DEF FileInv, Numbers

LEMMA DeliverKeeps ==
    ASSUME FileInv, Deliver
    PROVE  FileInv'
    <1>1. /\ at' = "idle" /\ class' = NoClass /\ todo' = << >> /\ pos' = 1 /\ stream' = << >>
          /\ c_attr_to_set' \in Elsewhere /\ UNCHANGED scanVars
        BY ElsewhereIsNoMethod DEF Deliver, SameScan
    <1>2. stream' \in Seq(Nat)
        BY <1>1
    <1> QED
        BY <1>1, <1>2, FreshKeeps

LEMMA ParseKeepsFile ==
    ASSUME FileInv, Parse
    PROVE  FileInv'
    BY ParseFileKeeps, PoolKeeps, ClassHeadKeeps, InterfacesKeeps, FieldKeeps, ThenKeeps, MethodRead,
       ScanSignatureKeeps, FailsKeep, MethodAttributesKeeps, PlainAttributeKeeps, CodeKeeps,
       AttributesDoneKeeps, FinishKeeps DEF Parse

----------------------------------------------------------------------------
(* The parser in the life of the process. *)

LEMMA InitFileInv == Init => FileInv
    <1> SUFFICES ASSUME Init PROVE FileInv
        OBVIOUS
    <1>1. ScanInv
        BY InitScanning DEF Init
    <1>2. Numbers
        BY ElsewhereIsNoMethod DEF Init, InitFile, InitScan, Numbers
    <1>3. << >> \in Seq(Frames) /\ DOMAIN << >> = {}
        BY EmptySequence
    <1>4. FramesOK /\ OwnersOK
        BY <1>3 DEF Init, InitFile, FramesOK, Shaped, OwnersOK, OwnedRight
    <1>5. HasParts(class, << >>, << >>, << >>, << >>)
        BY DEF Init, InitFile, HasParts, NoClass, ClassParts
    <1>6. ClassOK
        BY <1>5, NoParts DEF ClassOK, HasParts
    <1>7. WordsOK
        BY <1>3, <1>5 DEF Init, InitFile, WordsOK, HasParts
    <1> QED
        BY <1>1, <1>2, <1>4, <1>6, <1>7 DEF FileInv

LEMMA FileUnchanged ==
    ASSUME FileInv, UNCHANGED scanVars, UNCHANGED fileVars
    PROVE  FileInv'
    <1>1. ScanInv'
        BY ScanStep DEF FileInv
    <1>2. Numbers' /\ FramesOK' /\ OwnersOK' /\ ClassOK'
        BY DEF scanVars, fileVars, FileInv, Numbers, FramesOK, OwnersOK, OwnedRight, ClassOK,
               HasParts, PartsOK
    <1>3. WordsOK'
        BY DEF scanVars, fileVars, FileInv, WordsOK, CountedRight
    <1> QED
        BY <1>1, <1>2, <1>3 DEF FileInv

LEMMA ReleaseKeeps ==
    ASSUME FileInv, Release
    PROVE  FileInv'
    <1>1. /\ UNCHANGED scanVars
          /\ UNCHANGED <<at, stream, pos, todo, class>>
          /\ c_attr_to_set' = IF c_attr_to_set = Stale THEN Dangling ELSE c_attr_to_set
        BY DEF Release, SameScan
    <1>2. ScanInv'
        BY <1>1, ScanStep DEF FileInv
    <1>3. Numbers'
        BY <1>1, ElsewhereIsNoMethod DEF scanVars, FileInv, Numbers
    <1>4. OwnersOK'
        BY <1>1, ElsewhereIsNoMethod DEF FileInv, OwnersOK, OwnedRight
    <1>5. FramesOK' /\ ClassOK'
        BY <1>1 DEF FileInv, FramesOK, ClassOK, HasParts, PartsOK
    <1>6. WordsOK'
        BY <1>1 DEF scanVars, FileInv, WordsOK, CountedRight
    <1> QED
        BY <1>2, <1>3, <1>4, <1>5, <1>6 DEF FileInv

LEMMA FileStep == FileInv /\ [Next]_vars => FileInv'
    <1> SUFFICES ASSUME FileInv, [Next]_vars PROVE FileInv'
        OBVIOUS
    <1>1. ASSUME NEW name, NEW who, parse(name, who) PROVE FileInv'
        BY <1>1, LoadKeeps DEF parse
    <1>2. ASSUME NEW name, LoadsClass(name) PROVE FileInv'
        BY <1>2, LoadKeeps DEF LoadsClass
    <1>3. CASE ParseStep
        BY <1>3, ParseKeepsFile DEF ParseStep
    <1>4. CASE Loaded \/ Linked
        BY <1>4, DeliverKeeps DEF Loaded, Linked
    <1>5. CASE Exits \/ NoMain \/ run \/ Stop
        BY <1>5, FileUnchanged DEF Exits, NoMain, run, Stop
    <1>10. CASE impdep1 \/ TearDown \/ free_class
        BY <1>10, ReleaseKeeps DEF impdep1, TearDown, free_class
    <1>6. ASSUME NEW n, Ask(n) PROVE FileInv'
        BY <1>6, FileUnchanged DEF Ask
    <1>7. CASE Ordinary
        BY <1>7, FileUnchanged DEF Ordinary, Resume
    <1>8. ASSUME NEW k, InitializeClass(k) PROVE FileInv'
        BY <1>8, FileUnchanged DEF InitializeClass, Resume
    <1>9. CASE Ended \/ UNCHANGED vars
        BY <1>9, FileUnchanged DEF Ended, vars
    <1> QED
        BY <1>1, <1>2, <1>3, <1>4, <1>5, <1>6, <1>7, <1>8, <1>9, <1>10 DEF Next

LEMMA FileAlways == Spec => []FileInv
    BY InitFileInv, FileStep, PTL DEF Spec

----------------------------------------------------------------------------
(* The shortcuts of the class that is read, and of the classes of the ring. *)

LEMMA CodesAreOwn ==
    ASSUME NEW c, c.methods \in Seq(Methods), Shortcuts(c.methods, c.attributes)
    PROVE  CodeOwned(c)
    <1>1. \A m : CodesOf(c.attributes, m) = OwnCode(c, m)
        BY DEF CodesOf, OwnCode
    <1>2. \A m \in DOMAIN c.methods : m \in Nat
        OBVIOUS
    <1>3. CodePlaced(c) => CodeInPlace(c.attributes)
        <2> SUFFICES ASSUME CodePlaced(c), NEW x \in DOMAIN c.attributes,
                            c.attributes[x].name = Code
                     PROVE  /\ \E m \in Nat : c.attributes[x].owner = <<"method", m>>
                            /\ \A y \in DOMAIN c.attributes :
                                  c.attributes[y].name = Code
                                  /\ c.attributes[y].owner = c.attributes[x].owner => y = x
            BY DEF CodeInPlace
        <2>1. PICK m \in DOMAIN c.methods : OwnCode(c, m) = {x}
            BY DEF CodePlaced
        <2>2. c.attributes[x].owner = <<"method", m>> /\ m \in Nat
            BY <1>2, <2>1 DEF OwnCode
        <2>3. ASSUME NEW y \in DOMAIN c.attributes, c.attributes[y].name = Code,
                     c.attributes[y].owner = c.attributes[x].owner
              PROVE  y = x
            BY <2>1, <2>2, <2>3 DEF OwnCode
        <2> QED
            BY <2>2, <2>3
    <1> QED
        BY <1>1, <1>3 DEF CodeOwned, HasOwnCode, Shortcuts

LEMMA ReadRight ==
    ASSUME FileInv
    PROVE  CodeOwned(class) /\ (at = "parsed" => LoadedOK(class))
    <1>1. CodeOwned(class)
        BY CodesAreOwn DEF FileInv, ClassOK, PartsOK
    <1>2. DOMAIN class = ClassParts /\ class.static_initialized = FALSE
        BY DEF FileInv, ClassOK, HasParts
    <1>3. class.methods \in Seq(RingMethods)
        <2>1. Methods \subseteq RingMethods
            BY DEF Methods, RingMethods
        <2>2. class.methods \in Seq(Methods)
            BY DEF FileInv, ClassOK, PartsOK
        <2> QED
            BY <2>1, <2>2
    <1> QED
        BY <1>1, <1>2, <1>3 DEF FileInv, WordsOK, LoadedOK

\* Two structures with the same attributes and the same methods, and two that
\* differ in the code of one method.
SameCode(d, c) == d.methods = c.methods /\ d.attributes = c.attributes

SameBut(d, c, m) ==
    /\ d.attributes = c.attributes
    /\ DOMAIN d.methods = DOMAIN c.methods /\ Len(d.methods) = Len(c.methods)
    /\ \A x \in DOMAIN c.methods : x # m => d.methods[x].c_attr = c.methods[x].c_attr

LEMMA InitializedRight ==
    ASSUME NEW c, LoadedOK(c)
    PROVE  LoadedOK(Initialized(c)) /\ SameCode(Initialized(c), c)
    <1>1. PICK d : d = Initialized(c)
        OBVIOUS
    <1>2. /\ DOMAIN d = ClassParts /\ d.static_initialized = TRUE
          /\ d.methods = c.methods /\ d.attributes = c.attributes
        BY <1>1 DEF Initialized, LoadedOK, ClassParts
    <1> QED
        BY <1>1, <1>2 DEF LoadedOK, SameCode

LEMMA ForeignRight ==
    ASSUME NEW c, LoadedOK(c), NEW m
    PROVE  /\ LoadedOK(WithForeign(c, m))
           /\ SameBut(WithForeign(c, m), c, m)
    <1>1. PICK d : d = WithForeign(c, m)
        OBVIOUS
    <1>2. /\ DOMAIN d = ClassParts /\ d.static_initialized = c.static_initialized
          /\ d.methods = [c.methods EXCEPT ![m].c_attr = Foreign] /\ d.attributes = c.attributes
        BY <1>1 DEF WithForeign, LoadedOK, ClassParts
    <1>3. PICK ms \in Seq(RingMethods), n \in Nat :
              ms = c.methods /\ n = Len(ms) /\ DOMAIN ms = 1 .. n
        BY DEF LoadedOK
    <1>4. PICK q : q = [ms EXCEPT ![m].c_attr = Foreign]
        OBVIOUS
    <1>5. DOMAIN q = 1 .. n /\ q = [x \in 1 .. n |-> q[x]]
        BY <1>3, <1>4
    <1>6. ASSUME NEW x \in 1 .. n
          PROVE  /\ q[x] \in RingMethods
                 /\ q[x].signature = ms[x].signature /\ q[x].nargs = ms[x].nargs
                 /\ x # m => q[x] = ms[x]
        <2>1. ms[x] \in RingMethods
            BY <1>3
        <2>2. CASE x = m
            <3>1. q[x] = [ms[x] EXCEPT !.c_attr = Foreign]
                BY <1>3, <1>4, <2>2
            <3> QED
                BY <2>1, <2>2, <3>1 DEF RingMethods
        <2>3. CASE x # m
            BY <1>3, <1>4, <2>1, <2>3
        <2> QED
            BY <2>2, <2>3
    <1>7. q \in Seq(RingMethods) /\ Len(q) = n
        <2>1. q \in [1 .. n -> RingMethods]
            BY <1>5, <1>6
        <2> QED
            BY <1>3, <2>1
    <1>8. d.methods = q
        BY <1>2, <1>3, <1>4
    <1>9. \A x \in DOMAIN q : CountedRight(q[x])
        BY <1>3, <1>5, <1>6 DEF LoadedOK, CountedRight
    <1>10. LoadedOK(d)
        BY <1>2, <1>7, <1>8, <1>9 DEF LoadedOK
    <1>11. SameBut(d, c, m)
        BY <1>2, <1>3, <1>5, <1>6, <1>7, <1>8 DEF SameBut
    <1> QED
        BY <1>1, <1>10, <1>11

LEMMA SameCodeKept ==
    ASSUME NEW c, NEW d, NEW x, d.attributes = c.attributes, DOMAIN d.methods = DOMAIN c.methods,
           d.methods[x].c_attr = c.methods[x].c_attr
    PROVE  (CodePlaced(d) <=> CodePlaced(c)) /\ (HasOwnCode(d, x) <=> HasOwnCode(c, x))
    <1>1. \A m : OwnCode(d, m) = OwnCode(c, m)
        BY DEF OwnCode
    <1> QED
        BY <1>1 DEF CodePlaced, HasOwnCode

\* The classes of the ring are as they were, but for the mark of initialization.
Unmoved ==
    /\ DOMAIN ring' = DOMAIN ring /\ Len(ring') = Len(ring)
    /\ \A j \in DOMAIN ring : LoadedOK(ring'[j].class) /\ SameCode(ring'[j].class, ring[j].class)

LEMMA UnmovedKeeps ==
    ASSUME RingInv, IsSequence(ring), Unmoved, UNCHANGED last_method,
           c_attr_to_set' = Stale => c_attr_to_set = Stale, Misplaced(class) => Misplaced(class')
    PROVE  RingInv'
    <1>1. RingRight'
        BY DEF Unmoved, RingRight
    <1>2. PointerOK'
        BY DEF RingInv, PointerOK, Unmoved, SameCode
    <1>3. PICK n \in Nat : n = Len(ring) /\ DOMAIN ring = 1 .. n
        BY SequenceTyped
    <1>4. CodeKept'
        <2> SUFFICES ASSUME NEW k \in DOMAIN ring, NEW m \in DOMAIN ring[k].class.methods,
                            CodePlaced(ring'[k].class)
                     PROVE  \/ HasOwnCode(ring'[k].class, m)
                            \/ m = Len(ring'[k].class.methods) /\ Disturbed(k)'
            BY DEF CodeKept, Unmoved, SameCode
        <2>1. SameCode(ring'[k].class, ring[k].class)
            BY DEF Unmoved
        <2>2. /\ CodePlaced(ring[k].class)
              /\ HasOwnCode(ring'[k].class, m) <=> HasOwnCode(ring[k].class, m)
            BY <2>1, SameCodeKept DEF SameCode
        <2>3. \/ HasOwnCode(ring[k].class, m)
              \/ m = Len(ring[k].class.methods) /\ Disturbed(k)
            BY <2>2 DEF RingInv, CodeKept
        <2>4. ASSUME Disturbed(k) PROVE Disturbed(k)'
            <3>1. CASE Misplaced(class)
                BY <3>1 DEF Disturbed
            <3>2. ASSUME NEW j \in k + 1 .. Len(ring), Misplaced(ring[j].class)
                  PROVE  Disturbed(k)'
                <4>1. j \in DOMAIN ring
                    BY <1>3
                <4>2. SameCode(ring'[j].class, ring[j].class)
                    BY <4>1 DEF Unmoved
                <4>3. Misplaced(ring'[j].class)
                    BY <3>2, <4>2 DEF Misplaced, SameCode
                <4> QED
                    BY <4>3 DEF Disturbed, Unmoved
            <3> QED
                BY <2>4, <3>1, <3>2 DEF Disturbed
        <2> QED
            BY <2>1, <2>2, <2>3, <2>4 DEF SameCode
    <1> QED
        BY <1>1, <1>2, <1>4 DEF RingInv

\* A class is added behind the others.
LEMMA DeliveredKeeps ==
    ASSUME RingInv, FileInv, TargetOK, Deliver,
           NEW n \in Nat, Len(ring) = n, DOMAIN ring = 1 .. n, LeavesTarget(n + 1),
           Len(ring') = n + 1, DOMAIN ring' = 1 .. n + 1,
           \A j \in 1 .. n : LoadedOK(ring'[j].class) /\ SameCode(ring'[j].class, ring[j].class),
           LoadedOK(ring'[n + 1].class), SameCode(ring'[n + 1].class, class)
    PROVE  RingInv'
    <1>1. /\ \A j \in 1 .. n + 1 : j \in 1 .. n \/ j = n + 1
          /\ n + 1 \in Nat /\ n + 1 \in 1 .. n + 1 /\ \A j \in 1 .. n : j \in 1 .. n + 1
        OBVIOUS
    <1>2. RingRight'
        BY <1>1 DEF RingRight
    <1>3. /\ at = "parsed"
          /\ c_attr_to_set' = IF c_attr_to_set \in Elsewhere THEN c_attr_to_set ELSE Stale
        BY DEF Deliver
    <1>4. PointerOK'
        <2>1. CASE c_attr_to_set \in Elsewhere
            BY <1>1, <1>3, <2>1 DEF RingInv, PointerOK, LeavesTarget, SameCode
        <2>2. CASE c_attr_to_set \notin Elsewhere
            <3>1. c_attr_to_set = Len(class.methods) /\ c_attr_to_set \in Nat
                BY <1>3, <2>2 DEF TargetOK, FileInv, Numbers
            <3>2. last_method' = [class |-> n + 1, method |-> c_attr_to_set]
                BY <2>2 DEF LeavesTarget
            <3>3. /\ last_method' \in [class : Nat, method : Nat]
                  /\ last_method'.class = n + 1 /\ last_method'.method = c_attr_to_set
                BY <1>1, <3>1, <3>2
            <3>4. Len(ring'[n + 1].class.methods) = Len(class.methods)
                BY DEF SameCode
            <3> QED
                BY <1>1, <3>1, <3>3, <3>4 DEF PointerOK
        <2> QED
            BY <2>1, <2>2
    <1>5. CodeKept'
        <2> SUFFICES ASSUME NEW k \in 1 .. n + 1, NEW m \in DOMAIN ring'[k].class.methods,
                            CodePlaced(ring'[k].class)
                     PROVE  \/ HasOwnCode(ring'[k].class, m)
                            \/ m = Len(ring'[k].class.methods) /\ Disturbed(k)'
            BY DEF CodeKept
        <2>1. CASE k = n + 1
            <3>1. CodePlaced(class) /\ (HasOwnCode(ring'[k].class, m) <=> HasOwnCode(class, m))
                BY <2>1, SameCodeKept DEF SameCode
            <3>2. m \in DOMAIN class.methods
                BY <2>1 DEF SameCode
            <3> QED
                BY <3>1, <3>2, ReadRight DEF CodeOwned
        <2>2. CASE k \in 1 .. n
            <3>1. SameCode(ring'[k].class, ring[k].class)
                BY <2>2
            <3>2. /\ CodePlaced(ring[k].class) /\ m \in DOMAIN ring[k].class.methods
                  /\ HasOwnCode(ring'[k].class, m) <=> HasOwnCode(ring[k].class, m)
                BY <3>1, SameCodeKept DEF SameCode
            <3>3. \/ HasOwnCode(ring[k].class, m)
                  \/ m = Len(ring[k].class.methods) /\ Disturbed(k)
                BY <2>2, <3>2 DEF RingInv, CodeKept
            <3>4. ASSUME Disturbed(k) PROVE Disturbed(k)'
                <4>1. CASE Misplaced(class)
                    <5>1. Misplaced(ring'[n + 1].class)
                        BY <4>1 DEF Misplaced, SameCode
                    <5>2. n + 1 \in k + 1 .. n + 1
                        BY <2>2
                    <5> QED
                        BY <5>1, <5>2 DEF Disturbed
                <4>2. ASSUME NEW j \in k + 1 .. n, Misplaced(ring[j].class)
                      PROVE  Disturbed(k)'
                    <5>1. j \in 1 .. n /\ j \in k + 1 .. n + 1
                        BY <2>2
                    <5>2. SameCode(ring'[j].class, ring[j].class)
                        BY <5>1
                    <5>3. Misplaced(ring'[j].class)
                        BY <4>2, <5>2 DEF Misplaced, SameCode
                    <5> QED
                        BY <5>1, <5>3 DEF Disturbed
                <4> QED
                    BY <3>4, <4>1, <4>2 DEF Disturbed
            <3> QED
                BY <3>1, <3>2, <3>3, <3>4 DEF SameCode
        <2> QED
            BY <1>1, <2>1, <2>2
    <1> QED
        BY <1>2, <1>4, <1>5 DEF RingInv

\* c_attr_to_set is followed into a class of the ring.
LEMMA OverwritingKeeps ==
    ASSUME RingInv, IsSequence(ring), ring' = Overwritten(ring, last_method.class, last_method.method),
           \A j \in DOMAIN ring : ring[j] = [class |-> ring[j].class, names |-> ring[j].names],
           c_attr_to_set = Stale, UNCHANGED last_method, Misplaced(class')
    PROVE  RingInv'
    <1> DEFINE l == last_method.class
    <1>1. /\ Len(ring') = Len(ring) /\ DOMAIN ring' = DOMAIN ring
          /\ \A j \in DOMAIN ring : ring'[j].class =
                IF j = l THEN WithForeign(ring[j].class, last_method.method) ELSE ring[j].class
        BY OverwrittenRing
    <1>2. l \in DOMAIN ring /\ last_method.method = Len(ring[l].class.methods)
        BY DEF RingInv, PointerOK
    <1>3. \A j \in DOMAIN ring : LoadedOK(ring[j].class)
        BY DEF RingInv, RingRight
    <1> HIDE DEF l
    <1>4. ASSUME NEW j \in DOMAIN ring
          PROVE  /\ LoadedOK(ring'[j].class)
                 /\ SameBut(ring'[j].class, ring[j].class, Len(ring[j].class.methods))
        <2>1. CASE j = l
            BY <1>1, <1>2, <1>3, <2>1, ForeignRight
        <2>2. CASE j # l
            BY <1>1, <1>3, <2>2 DEF SameBut
        <2> QED
            BY <2>1, <2>2
    <1>5. RingRight'
        BY <1>1, <1>4 DEF RingRight
    <1>6. PointerOK'
        BY <1>1, <1>4 DEF RingInv, PointerOK, SameBut
    <1>7. CodeKept'
        <2> SUFFICES ASSUME NEW k \in DOMAIN ring, NEW m \in DOMAIN ring'[k].class.methods,
                            CodePlaced(ring'[k].class)
                     PROVE  \/ HasOwnCode(ring'[k].class, m)
                            \/ m = Len(ring'[k].class.methods) /\ Disturbed(k)'
            BY <1>1 DEF CodeKept
        <2>1. SameBut(ring'[k].class, ring[k].class, Len(ring[k].class.methods))
            BY <1>4
        <2>2. CASE m = Len(ring[k].class.methods)
            BY <2>1, <2>2 DEF SameBut, Disturbed
        <2>3. CASE m # Len(ring[k].class.methods)
            <3>1. /\ CodePlaced(ring[k].class) /\ m \in DOMAIN ring[k].class.methods
                  /\ HasOwnCode(ring'[k].class, m) <=> HasOwnCode(ring[k].class, m)
                BY <2>1, <2>3, SameCodeKept DEF SameBut
            <3> QED
                BY <2>3, <3>1 DEF RingInv, CodeKept
        <2> QED
            BY <2>2, <2>3
    <1> QED
        BY <1>5, <1>6, <1>7 DEF RingInv

\* A class of the ring is marked.
LEMMA MarkedUnmoved ==
    ASSUME NEW s, IsSequence(s), NEW k \in DOMAIN s, NEW t, t = Marked(s, k),
           \A j \in DOMAIN s : s[j] = [class |-> s[j].class, names |-> s[j].names],
           \A j \in DOMAIN s : LoadedOK(s[j].class)
    PROVE  /\ DOMAIN t = DOMAIN s /\ Len(t) = Len(s)
           /\ \A j \in DOMAIN s : LoadedOK(t[j].class) /\ SameCode(t[j].class, s[j].class)
    <1>1. /\ DOMAIN t = DOMAIN s /\ Len(t) = Len(s)
          /\ \A j \in DOMAIN t :
                t[j].class = IF j = k THEN Initialized(s[k].class) ELSE s[j].class
        BY MarkedRing
    <1> QED
        BY <1>1, InitializedRight DEF SameCode

----------------------------------------------------------------------------
(* What a step of the parser does to the class under construction. *)

\* Attributes are only added.
Grows ==
    \/ class'.attributes = class.attributes
    \/ \E a : class'.attributes = Append(class.attributes, a)

LEMMA MisplacedStays ==
    ASSUME FileInv, Grows, Misplaced(class)
    PROVE  Misplaced(class')
    <1>1. PICK x \in DOMAIN class.attributes :
              /\ class.attributes[x].name = Code
              /\ \A m \in Nat : class.attributes[x].owner # <<"method", m>>
        BY DEF Misplaced
    <1>2. CASE class'.attributes = class.attributes
        BY <1>1, <1>2 DEF Misplaced
    <1>3. ASSUME NEW a, class'.attributes = Append(class.attributes, a)
          PROVE  Misplaced(class')
        <2>1. PICK n \in Nat : n = Len(class.attributes) /\ DOMAIN class.attributes = 1 .. n
            BY SequenceTyped DEF FileInv, ClassOK, PartsOK, AttributesOK
        <2>2. /\ x \in 1 .. n + 1 /\ DOMAIN class'.attributes = 1 .. n + 1
              /\ class'.attributes[x] = class.attributes[x]
            BY <1>3, <2>1, AppendSequence DEF FileInv, ClassOK, PartsOK, AttributesOK
        <2> QED
            BY <1>1, <2>2 DEF Misplaced
    <1> QED
        BY <1>2, <1>3 DEF Grows

\* What a step of the parser is to the pointer.
Pointed == TargetOK' /\ Grows /\ (c_attr_to_set' = Stale => c_attr_to_set = Stale)

LEMMA SameTables ==
    ASSUME FileInv, TargetOK, UNCHANGED c_attr_to_set,
           class'.methods = class.methods, class'.attributes = class.attributes,
           at' \in {"reading", "signature", "parsed", "exit", "unknown"},
           at' \in {"reading", "parsed"} => at \in {"start", "reading"}
    PROVE  Pointed
    BY DEF TargetOK, Pointed, Grows

LEMMA NoMoreAttributes ==
    ASSUME FileInv, At("attribute"), Top.n <= 0
    PROVE  ~ Attribute
    <1>1. Top.n \in Int
        BY AtTable DEF Frames
    <1> QED
        BY <1>1 DEF Attribute

LEMMA TablesStay ==
    ASSUME FileInv, TargetOK,
           BadMagic \/ parse_file \/ SecondPart \/ parse_constant \/ parse_Utf8 \/ WrongTag
           \/ ClassHead \/ parse_interfaces \/ parse_field \/ ThenMethods \/ ScanSignature
           \/ ScanFails \/ ThenAttributes \/ WrongName \/ AttributesDone \/ Finish
    PROVE  Pointed /\ ~ SetsOld
    <1>1. DOMAIN class = ClassParts
        BY DEF FileInv, ClassOK, HasParts
    <1>2. CASE BadMagic \/ WrongTag \/ ScanFails \/ WrongName
        BY <1>2, SameTables DEF BadMagic, WrongTag, ScanFails, WrongName, Fail, SetsOld, Constant,
                                Attribute, At, NameIs
    <1>3. CASE parse_file \/ ThenMethods \/ ThenAttributes \/ AttributesDone
        <2>1. ~ SetsOld
            <3>1. CASE parse_file \/ ThenMethods \/ ThenAttributes
                BY <3>1 DEF parse_file, ThenMethods, ThenAttributes, SetsOld, Attribute, At
            <3>2. CASE AttributesDone
                BY <3>2, NoMoreAttributes DEF AttributesDone, SetsOld
            <3> QED
                BY <1>3, <3>1, <3>2
        <2>2. /\ UNCHANGED <<class, c_attr_to_set>>
              /\ at \in {"start", "reading"} /\ at' \in {"reading", "unknown"}
            BY <1>3 DEF parse_file, ThenMethods, ThenAttributes, AttributesDone, GoOn, At
        <2> QED
            BY <2>1, <2>2, SameTables
    <1>4. CASE ScanSignature
        BY <1>4, SameTables DEF ScanSignature, fileVars, SetsOld, Attribute, At
    <1>5. CASE SecondPart \/ parse_constant
        <2>1. /\ at = "reading" /\ Top.kind = "constant" /\ UNCHANGED c_attr_to_set
              /\ at' \in {"reading", "unknown"}
              /\ \E e : class' = [class EXCEPT !.pool = Append(@, e)]
            BY <1>5 DEF SecondPart, parse_constant, NewConstant, GoOn, Constant, At
        <2>2. class'.methods = class.methods /\ class'.attributes = class.attributes
            BY <1>1, <2>1 DEF ClassParts
        <2> QED
            BY <2>1, <2>2, SameTables DEF SetsOld, Attribute, At
    <1>6. CASE parse_Utf8
        <2>1. /\ at = "reading" /\ Top.kind = "constant" /\ UNCHANGED c_attr_to_set
              /\ at' \in {"reading", "unknown"}
              /\ class' = class \/ \E e : class' = [class EXCEPT !.pool = Append(@, e)]
            BY <1>6 DEF parse_Utf8, NewConstant, GoOn, Fail, Constant, At
        <2>2. class'.methods = class.methods /\ class'.attributes = class.attributes
            BY <1>1, <2>1 DEF ClassParts
        <2> QED
            BY <2>1, <2>2, SameTables DEF SetsOld, Attribute, At
    <1>7. CASE ClassHead \/ parse_interfaces
        <2>1. /\ at = "reading" /\ Top.kind # "attribute" /\ UNCHANGED c_attr_to_set
              /\ at' \in {"reading", "unknown"}
            BY <1>7 DEF ClassHead, parse_interfaces, GoOn, At
        <2>2. class'.methods = class.methods /\ class'.attributes = class.attributes
            <3>1. CASE ClassHead
                <4>1. \E v : class' = [class EXCEPT !.access = v[1], !.this = v[2], !.super = v[3]]
                    BY <3>1 DEF ClassHead
                <4> QED
                    BY <1>1, <4>1 DEF ClassParts
            <3>2. CASE parse_interfaces
                <4>1. \E v : class' = [class EXCEPT !.interfaces = v]
                    BY <3>2 DEF parse_interfaces
                <4> QED
                    BY <1>1, <4>1 DEF ClassParts
            <3> QED
                BY <1>7, <3>1, <3>2
        <2> QED
            BY <2>1, <2>2, SameTables DEF SetsOld, Attribute, At
    <1>8. CASE parse_field
        <2>1. /\ at = "reading" /\ Top.kind = "field" /\ UNCHANGED c_attr_to_set
              /\ at' \in {"reading", "unknown"}
              /\ class' = class \/ \E e : class' = [class EXCEPT !.fields = Append(@, e)]
            BY <1>8 DEF parse_field, GoOn, Fail, At
        <2>2. class'.methods = class.methods /\ class'.attributes = class.attributes
            BY <1>1, <2>1 DEF ClassParts
        <2> QED
            BY <2>1, <2>2, SameTables DEF SetsOld, Attribute, At
    <1>9. CASE Finish
        <2>1. /\ at = "reading" /\ ~ Attribute /\ UNCHANGED c_attr_to_set
              /\ at' \in {"parsed", "unknown"}
              /\ class' = class \/ \E e : class' = [class EXCEPT !.name = e]
            <3>1. Top.n <= 0 /\ at = "reading"
                BY <1>9 DEF Finish, At
            <3>2. ~ Attribute
                BY <1>9, NoMoreAttributes DEF Finish
            <3> QED
                BY <1>9, <3>1, <3>2 DEF Finish, Fail
        <2>2. class'.methods = class.methods /\ class'.attributes = class.attributes
            BY <1>1, <2>1 DEF ClassParts
        <2> QED
            BY <2>1, <2>2, SameTables DEF SetsOld
    <1> QED
        BY <1>2, <1>3, <1>4, <1>5, <1>6, <1>7, <1>8, <1>9

\* A method is added, and c_attr_to_set set to it before anything else is read.
LEMMA MethodPointed ==
    ASSUME FileInv, TargetOK, parse_method \/ MethodAttributes
    PROVE  Pointed /\ ~ SetsOld
    <1>1. DOMAIN class = ClassParts /\ class.methods \in Seq(Methods)
        BY DEF FileInv, ClassOK, HasParts, PartsOK
    <1>2. CASE parse_method
        <2>1. /\ at' \in {"signature", "unknown"} /\ UNCHANGED c_attr_to_set
              /\ class' = class \/ \E e : class' = [class EXCEPT !.methods = Append(@, e)]
              /\ Top.kind = "method"
            BY <1>2 DEF parse_method, Fail, GoOn, At
        <2>2. class'.attributes = class.attributes
            BY <1>1, <2>1 DEF ClassParts
        <2> QED
            BY <2>1, <2>2 DEF Pointed, TargetOK, Grows, SetsOld, Attribute, At
    <1>3. CASE MethodAttributes
        <2>1. PICK m : /\ m = Len(class.methods)
                       /\ class' = [class EXCEPT !.methods[m].nargs = nargs]
                       /\ c_attr_to_set' = m
                       /\ at = "signature" /\ at' \in {"reading", "unknown"}
            BY <1>3 DEF MethodAttributes, GoOn, TargetOf
        <2>2. m \in Nat /\ m >= 1
            BY <1>1, <2>1 DEF FileInv, FramesOK
        <2>3. /\ class'.attributes = class.attributes
              /\ class'.methods = [class.methods EXCEPT ![m].nargs = nargs]
            BY <1>1, <2>1 DEF ClassParts
        <2>4. IsSequence(class.methods)
            BY <1>1 DEF IsSequence
        <2>5. /\ DOMAIN class'.methods = DOMAIN class.methods
              /\ class'.methods = [k \in DOMAIN class.methods |-> class'.methods[k]]
            BY <2>3
        <2>6. Len(class'.methods) = m
            BY <2>1, <2>4, <2>5, ExceptSequence
        <2> QED
            BY <2>1, <2>2, <2>3, <2>6, ElsewhereIsNoMethod
               DEF Pointed, TargetOK, Grows, SetsOld, Attribute, At
    <1> QED
        BY <1>2, <1>3

\* An attribute is added.
LEMMA AttributePointed ==
    ASSUME FileInv, TargetOK, parse_ConstantValue_attribute \/ SkipAttribute \/ parse_Code_attribute
    PROVE  /\ Pointed
           /\ \E a : /\ class'.attributes = Append(class.attributes, a)
                     /\ a.owner = Top.owner /\ a.name = Str(NameIndex)
    <1>1. DOMAIN class = ClassParts /\ class.methods \in Seq(Methods)
        BY DEF FileInv, ClassOK, HasParts, PartsOK
    <1>2. at = "reading" /\ at' \in {"reading", "unknown"} /\ UNCHANGED c_attr_to_set
        BY DEF parse_ConstantValue_attribute, SkipAttribute, parse_Code_attribute, GoOn,
               Attribute, At
    <1>3. PICK body : /\ \/ class' = WithAttribute(body)
                         \/ \E j, x : class' = [WithAttribute(body) EXCEPT !.methods[j].c_attr = x]
        BY DEF parse_ConstantValue_attribute, SkipAttribute, parse_Code_attribute
    <1>4. PICK a : /\ a = [owner |-> Top.owner, name |-> Str(NameIndex),
                           length |-> AttributeLength, body |-> body]
                   /\ a.owner = Top.owner /\ a.name = Str(NameIndex)
        <2>1. PICK o, t, l : o = Top.owner /\ t = Str(NameIndex) /\ l = AttributeLength
            OBVIOUS
        <2>2. PICK a : a = [owner |-> o, name |-> t, length |-> l, body |-> body]
            OBVIOUS
        <2>3. a.owner = o /\ a.name = t
            BY <2>2
        <2> QED
            BY <2>1, <2>2, <2>3
    <1>5. PICK c : c = WithAttribute(body) /\ c = [class EXCEPT !.attributes = Append(@, a)]
        BY <1>4 DEF WithAttribute
    <1>6. /\ DOMAIN c = ClassParts /\ c.methods = class.methods
          /\ c.attributes = Append(class.attributes, a)
        BY <1>1, <1>5 DEF ClassParts
    <1>7. class'.attributes = c.attributes /\ Len(class'.methods) = Len(class.methods)
        <2>1. CASE class' = c
            BY <1>6, <2>1
        <2>2. ASSUME NEW j, NEW x, class' = [c EXCEPT !.methods[j].c_attr = x]
              PROVE  class'.attributes = c.attributes /\ Len(class'.methods) = Len(class.methods)
            <3>1. /\ class'.attributes = c.attributes
                  /\ class'.methods = [c.methods EXCEPT ![j].c_attr = x]
                BY <1>6, <2>2 DEF ClassParts
            <3>2. IsSequence(class.methods)
                BY <1>1 DEF IsSequence
            <3>3. /\ DOMAIN class'.methods = DOMAIN class.methods
                  /\ class'.methods = [k \in DOMAIN class.methods |-> class'.methods[k]]
                BY <1>6, <3>1
            <3> QED
                BY <3>1, <3>2, <3>3, ExceptSequence
        <2> QED
            BY <1>3, <1>5, <2>1, <2>2
    <1>8. Pointed
        BY <1>2, <1>6, <1>7 DEF Pointed, TargetOK, Grows
    <1> QED
        BY <1>4, <1>6, <1>7, <1>8

LEMMA ParsePointed ==
    ASSUME FileInv, TargetOK, Parse
    PROVE  Pointed /\ (SetsOld => Misplaced(class'))
    <1>1. CASE parse_ConstantValue_attribute \/ SkipAttribute \/ parse_Code_attribute
        <2>1. PICK a : /\ class'.attributes = Append(class.attributes, a)
                       /\ a.owner = Top.owner /\ a.name = Str(NameIndex)
            BY <1>1, AttributePointed
        <2>2. ASSUME SetsOld PROVE Misplaced(class')
            <3>1. a.name = Code /\ at = "reading" /\ c_attr_to_set = Stale /\ Attribute
                BY <2>1, <2>2 DEF SetsOld, NameIs, Attribute, At
            <3>2. \A m \in Nat : a.owner # <<"method", m>>
                BY <2>1, <3>1, OwnerKnown, ElsewhereIsNoMethod
            <3>3. PICK n \in Nat : n = Len(class.attributes)
                BY SequenceTyped DEF FileInv, ClassOK, PartsOK, AttributesOK
            <3>4. /\ DOMAIN class'.attributes = 1 .. n + 1 /\ class'.attributes[n + 1] = a
                BY <2>1, <3>3, AppendSequence DEF FileInv, ClassOK, PartsOK, AttributesOK
            <3>5. n + 1 \in 1 .. n + 1
                BY <3>3
            <3> QED
                BY <3>1, <3>2, <3>4, <3>5 DEF Misplaced
        <2> QED
            BY <1>1, <2>2, AttributePointed
    <1>2. CASE parse_method \/ MethodAttributes
        BY <1>2, MethodPointed
    <1> QED
        BY <1>1, <1>2, TablesStay DEF Parse

LEMMA TargetStep == FileInv /\ TargetOK /\ LifeInv /\ [Next]_vars => TargetOK'
    <1> SUFFICES ASSUME FileInv, TargetOK, LifeInv, [Next]_vars PROVE TargetOK'
        OBVIOUS
    <1>1. UNCHANGED fileVars => TargetOK'
        BY DEF fileVars, TargetOK
    <1>2. NoClass.methods = << >> /\ Len(<< >>) = 0
        BY EmptySequence DEF NoClass
    <1>3. ASSUME NEW name, load_class(name) PROVE TargetOK'
        BY <1>2, <1>3 DEF load_class, TargetOK
    <1>4. CASE \E name \in ClassNames : \E who \in {"java", "fixture", "parse only"} : parse(name, who)
        BY <1>3, <1>4 DEF parse
    <1>5. CASE \E name \in ClassNames : LoadsClass(name)
        BY <1>3, <1>5 DEF LoadsClass
    <1>6. CASE ParseStep
        BY <1>6, ParsePointed DEF ParseStep, Pointed
    <1>7. CASE Loaded \/ Linked
        <2>1. /\ at' = "idle" /\ class' = NoClass /\ c_attr_to_set' \in Elsewhere
            BY <1>7, ElsewhereIsNoMethod DEF Loaded, Linked, Deliver
        <2> QED
            BY <1>2, <2>1 DEF TargetOK
    <1>8. CASE impdep1 \/ TearDown \/ free_class
        <2>1. /\ UNCHANGED <<at, class>>
              /\ c_attr_to_set' = IF c_attr_to_set = Stale THEN Dangling ELSE c_attr_to_set
              /\ at = "idle"
            BY <1>8 DEF impdep1, TearDown, free_class, Release, LifeInv, PhasesOK, Dispatch
        <2>2. class = NoClass
            BY <2>1 DEF TargetOK
        <2> QED
            BY <1>2, <2>1, <2>2, ElsewhereIsNoMethod DEF TargetOK
    <1>9. CASE Exits \/ NoMain \/ run \/ Stop \/ Ordinary \/ Ended \/ UNCHANGED vars
        BY <1>1, <1>9 DEF Exits, NoMain, run, Stop, Ordinary, Ended, vars
    <1>10. CASE \E n \in 1 .. MaxInstrs : Ask(n)
        BY <1>1, <1>10 DEF Ask
    <1>11. CASE \E k \in DOMAIN ring : InitializeClass(k)
        BY <1>1, <1>11 DEF InitializeClass
    <1> QED
        BY <1>4, <1>5, <1>6, <1>7, <1>8, <1>9, <1>10, <1>11 DEF Next

LEMMA TargetAlways == Spec => []TargetOK
    <1>1. Init => TargetOK
        <2>1. NoClass.methods = << >> /\ Len(<< >>) = 0
            BY EmptySequence DEF NoClass
        <2> QED
            BY <2>1, ElsewhereIsNoMethod DEF Init, InitFile, TargetOK
    <1> QED
        BY <1>1, TargetStep, FileAlways, LifeAlways, PTL DEF Spec

----------------------------------------------------------------------------
(* The classes of the ring, while others are parsed. *)

LEMMA RingStep == LifeInv /\ FileInv /\ TargetOK /\ RingInv /\ [Next]_vars => RingInv'
    <1> SUFFICES ASSUME LifeInv, FileInv, TargetOK, RingInv, [Next]_vars PROVE RingInv'
        OBVIOUS
    <1>1. /\ IsSequence(ring)
          /\ \A j \in DOMAIN ring : ring[j] = [class |-> ring[j].class, names |-> ring[j].names]
          /\ \A j \in DOMAIN ring : LoadedOK(ring[j].class)
        BY DEF LifeInv, RingOK, RingInv, RingRight
    <1>2. ring' = ring => Unmoved
        BY <1>1 DEF Unmoved, SameCode
    <1>3. ASSUME Unmoved, UNCHANGED fileVars, UNCHANGED last_method
          PROVE  RingInv'
        BY <1>1, <1>3, UnmovedKeeps DEF fileVars
    <1>4. PICK n \in Nat : n = Len(ring) /\ DOMAIN ring = 1 .. n
        BY <1>1, SequenceTyped
    <1>5. ASSUME NEW name, load_class(name), UNCHANGED <<ring, last_method>>
          PROVE  RingInv'
        <2>1. at = "idle" /\ UNCHANGED c_attr_to_set
            BY <1>5 DEF load_class
        <2>2. ~ Misplaced(class)
            BY <2>1, EmptySequence DEF TargetOK, NoClass, Misplaced
        <2> QED
            BY <1>1, <1>2, <1>5, <2>1, <2>2, UnmovedKeeps
    <1>6. CASE \E name \in ClassNames : \E who \in {"java", "fixture", "parse only"} : parse(name, who)
        BY <1>5, <1>6 DEF parse
    <1>7. CASE \E name \in ClassNames : LoadsClass(name)
        BY <1>5, <1>7 DEF LoadsClass
    <1>8. CASE ParseStep
        <2>1. Pointed /\ (SetsOld => Misplaced(class')) /\ UNCHANGED last_method
            BY <1>8, ParsePointed DEF ParseStep
        <2>2. CASE ~ SetsOld
            <3>1. ring' = ring
                BY <1>8, <2>2 DEF ParseStep
            <3> QED
                BY <1>1, <1>2, <2>1, <3>1, UnmovedKeeps, MisplacedStays DEF Pointed
        <2>3. CASE SetsOld
            <3>1. ring' = Overwritten(ring, last_method.class, last_method.method)
                BY <1>8, <2>3 DEF ParseStep
            <3>2. c_attr_to_set = Stale
                BY <2>3 DEF SetsOld
            <3> QED
                BY <1>1, <2>1, <2>3, <3>1, <3>2, OverwritingKeeps
        <2> QED
            BY <2>2, <2>3
    <1>9. CASE Exits \/ NoMain \/ Ordinary \/ Stop \/ Ended \/ UNCHANGED vars
        BY <1>2, <1>3, <1>9 DEF Exits, NoMain, Ordinary, Stop, Ended, vars, lifeVars
    <1>10. CASE \E x \in 1 .. MaxInstrs : Ask(x)
        BY <1>2, <1>3, <1>10 DEF Ask
    <1>11. CASE impdep1 \/ TearDown \/ free_class
        <2>1. /\ ring' = << >> /\ UNCHANGED last_method
              /\ c_attr_to_set' = IF c_attr_to_set = Stale THEN Dangling ELSE c_attr_to_set
            BY <1>11 DEF impdep1, TearDown, free_class, free_vm, Release
        <2>2. c_attr_to_set' # Stale
            BY <2>1, ElsewhereIsNoMethod
        <2> QED
            BY <2>1, <2>2, EmptySequence DEF RingInv, RingRight, CodeKept, PointerOK
    <1>12. CASE run
        <2>1. ring' = Marked(ring, 1) /\ vm = "loaded" /\ UNCHANGED fileVars /\ UNCHANGED last_method
            BY <1>12 DEF run, Marked
        <2>2. 1 \in DOMAIN ring
            <3>1. n >= 1
                BY <1>4, <2>1 DEF LifeInv, RingOK, Active
            <3> QED
                BY <1>4, <3>1
        <2> QED
            BY <1>1, <1>3, <2>1, <2>2, MarkedUnmoved DEF Unmoved
    <1>13. ASSUME NEW k \in DOMAIN ring, InitializeClass(k) PROVE RingInv'
        <2>1. ring' = Marked(ring, k) /\ UNCHANGED fileVars /\ UNCHANGED last_method
            BY <1>13 DEF InitializeClass, Initializes, Marked
        <2> QED
            BY <1>1, <1>3, <2>1, MarkedUnmoved DEF Unmoved
    <1>14. ASSUME Deliver
           PROVE  New_c = [class |-> New_c.class, names |-> New_c.names] /\ LoadedOK(New_c.class)
                  /\ New_c.class = class
        BY <1>14, ReadRight DEF New_c, Deliver
    <1>15. CASE Loaded
        <2>1. /\ ring' = << New_c >> /\ ring = << >> /\ Deliver /\ LeavesTarget(1)
            BY <1>15 DEF Loaded, LifeInv, RingOK
        <2>2. Len(ring') = 1 /\ DOMAIN ring' = {1} /\ ring'[1] = New_c /\ Len(ring) = 0
            BY <2>1, SingleSequence, EmptySequence
        <2>3. n = 0 /\ n + 1 = 1 /\ 1 .. 1 = {1}
            BY <1>4, <2>2
        <2>4. \A j \in 1 .. 0 : FALSE
            OBVIOUS
        <2> QED
            BY <1>4, <1>14, <2>1, <2>2, <2>3, <2>4, DeliveredKeeps DEF SameCode
    <1>16. CASE Linked
        <2>1. Deliver /\ LeavesTarget(n + 1)
            BY <1>4, <1>16 DEF Linked
        <2>2. PICK with : with = Append(ring, New_c)
            OBVIOUS
        <2>3. /\ IsSequence(with) /\ DOMAIN with = 1 .. n + 1 /\ with[n + 1] = New_c
              /\ Len(with) = n + 1
              /\ \A k \in 1 .. n : with[k] = ring[k]
            BY <1>1, <1>4, <2>2, AppendSequence
        <2>4. /\ \A k \in 1 .. n + 1 : k \in 1 .. n \/ k = n + 1
              /\ \A k \in 1 .. n : k \in 1 .. n + 1
              /\ n + 1 \in 1 .. n + 1
            OBVIOUS
        <2>5. \A j \in DOMAIN with : /\ with[j] = [class |-> with[j].class, names |-> with[j].names]
                                     /\ LoadedOK(with[j].class)
            BY <1>1, <1>4, <1>14, <2>1, <2>3, <2>4
        <2>6. /\ DOMAIN ring' = DOMAIN with /\ Len(ring') = Len(with)
              /\ \A j \in DOMAIN with :
                    LoadedOK(ring'[j].class) /\ SameCode(ring'[j].class, with[j].class)
            <3>1. CASE ring' = with
                BY <2>5, <3>1 DEF SameCode
            <3>2. CASE Initializes(with, n + 1)
                <4>1. ring' = Marked(with, n + 1)
                    BY <3>2 DEF Initializes, Marked
                <4> QED
                    BY <2>3, <2>4, <2>5, <4>1, MarkedUnmoved
            <3> QED
                BY <1>4, <1>16, <2>2, <3>1, <3>2 DEF Linked
        <2>7. /\ Len(ring') = n + 1 /\ DOMAIN ring' = 1 .. n + 1
              /\ \A j \in 1 .. n : LoadedOK(ring'[j].class) /\ SameCode(ring'[j].class, ring[j].class)
              /\ LoadedOK(ring'[n + 1].class) /\ SameCode(ring'[n + 1].class, class)
            BY <1>14, <2>1, <2>3, <2>4, <2>6
        <2> QED
            BY <1>4, <2>1, <2>7, DeliveredKeeps
    <1> QED
        BY <1>6, <1>7, <1>8, <1>9, <1>10, <1>11, <1>12, <1>13, <1>15, <1>16 DEF Next

LEMMA RingAlways == Spec => []RingInv
    <1>1. Init => RingInv
        BY EmptySequence, ElsewhereIsNoMethod
           DEF Init, InitFile, RingInv, RingRight, CodeKept, PointerOK
    <1> QED
        BY <1>1, RingStep, LifeAlways, FileAlways, TargetAlways, PTL DEF Spec

----------------------------------------------------------------------------
(* What holds of any class files. *)

\* Whatever the bytes of a file are: what is read has its type, a table that is
\* read is on the stack of calls, and a class is under construction only while
\* a program loads one.
THEOREM EverythingTyped == Spec => []TypeOK
    <1>1. ASSUME LifeInv, FileInv, RingInv
          PROVE  TypeOK
        <2>1. /\ scan \in {"idle", "scanning", "counted", "invalid", "overrun"}
              /\ signature \in Signatures /\ i \in Nat /\ nargs \in Nat
            BY <1>1 DEF FileInv, ScanInv, Numbers
        <2>2. /\ at \in {"idle", "start", "reading", "signature", "parsed", "exit", "unknown"}
              /\ pos \in Nat
              /\ c_attr_to_set \in Elsewhere \cup Nat
            BY <1>1 DEF LifeInv, PhasesOK, FileInv, Numbers
        <2>3. \A k \in DOMAIN todo :
                 todo[k].kind \in {"constant", "interfaces", "field", "method", "attribute"}
            <3>1. todo \in Seq(Frames)
                BY <1>1 DEF FileInv, FramesOK, Shaped
            <3>2. \A f \in Frames :
                     f.kind \in {"constant", "interfaces", "field", "method", "attribute"}
                BY DEF Frames
            <3>3. \A k \in DOMAIN todo : todo[k] \in Frames
                BY <3>1
            <3> QED
                BY <3>2, <3>3
        <2>4. at = "reading" => todo # << >>
            BY <1>1 DEF FileInv, FramesOK
        <2>5. vm \in Phases /\ (at # "idle" => vm \in {"loading", "resolving", "exited"})
            BY <1>1 DEF LifeInv, PhasesOK, Phases
        <2>6. \A k \in DOMAIN ring : ring[k].class.static_initialized \in BOOLEAN
            BY <1>1 DEF RingInv, RingRight, LoadedOK
        <2>8. last_method \in [class : Nat, method : Nat]
            BY <1>1 DEF RingInv, PointerOK
        <2>7. /\ pool.id \in 0 .. programs /\ natives \in 0 .. programs
              /\ goto \in {"NEXT", "AFTER"}
              /\ instrs_counter \in Nat /\ instrs_until_terminate \in Nat
            BY <1>1 DEF LifeInv, OnePool, LimitOK
        <2> QED
            BY <2>1, <2>2, <2>3, <2>4, <2>5, <2>6, <2>7, <2>8 DEF TypeOK
    <1> QED
        BY <1>1, LifeAlways, FileAlways, RingAlways, PTL

\* Every signature is counted right, in any file, behind any other one.
THEOREM AllWordsCounted == Spec => []NargsRight
    <1>1. FileInv => NargsRight
        BY DEF FileInv, ScanInv
    <1> QED
        BY <1>1, FileAlways, PTL

\* However the attributes of a file are nested and ordered, and whatever was
\* parsed before: if the code of the file is placed, the shortcut of a method
\* leads to the code of that method, and there is none where it has no code.
THEOREM OwnCodeFound == Spec => []CodeOfItsOwn
    <1>1. FileInv => CodeOfItsOwn
        BY ReadRight DEF CodeOfItsOwn
    <1> QED
        BY <1>1, FileAlways, PTL

\* Every call of a program finds as many words as the descriptor says and the
\* code of the method itself, in whatever order its classes were loaded, unless a
\* class loaded behind it has code outside of its methods; and even then every
\* method but the last one of the class keeps its code.
THEOREM EveryCallFits == Spec => []CallsFit
    <1>1. ASSUME LifeInv, FileInv, RingInv
          PROVE  CallsFit
        <2>1. ASSUME NEW d, IsSequence(d.methods), CodeInMethods(d)
              PROVE  ~ Misplaced(d)
            <3>1. \A m \in DOMAIN d.methods : m \in Nat
                BY <2>1, SequenceTyped
            <3> QED
                BY <2>1, <3>1 DEF CodeInMethods, Misplaced
        <2>2. IsSequence(class.methods)
            BY <1>1 DEF FileInv, ClassOK, PartsOK, IsSequence
        <2>3. ASSUME NEW j \in DOMAIN ring
              PROVE  IsSequence(ring[j].class.methods)
            BY <1>1 DEF RingInv, RingRight, LoadedOK, IsSequence
        <2>4. PICK n \in Nat : n = Len(ring) /\ DOMAIN ring = 1 .. n
            BY <1>1, SequenceTyped DEF LifeInv, RingOK
        <2>5. ASSUME NEW k \in DOMAIN ring, \A d \in Later(k) : CodeInMethods(d)
              PROVE  ~ Disturbed(k)
            <3>1. CodeInMethods(class)
                BY <2>5 DEF Later
            <3>2. ASSUME NEW j \in k + 1 .. Len(ring)
                  PROVE  ~ Misplaced(ring[j].class)
                <4>1. CodeInMethods(ring[j].class)
                    BY <2>5, <3>2 DEF Later
                <4>2. j \in DOMAIN ring
                    BY <2>4, <2>5
                <4> QED
                    BY <2>1, <2>3, <4>1, <4>2
            <3> QED
                BY <2>1, <2>2, <3>1, <3>2 DEF Disturbed
        <2>6. ASSUME NEW k \in DOMAIN ring, NEW m \in DOMAIN ring[k].class.methods
              PROVE  /\ CountedRight(ring[k].class.methods[m])
                     /\ /\ CodePlaced(ring[k].class)
                        /\ \/ m < Len(ring[k].class.methods)
                           \/ \A d \in Later(k) : CodeInMethods(d)
                        => HasOwnCode(ring[k].class, m)
            <3>1. PICK l \in Nat : l = Len(ring[k].class.methods) /\ m \in 1 .. l
                BY <2>3, SequenceTyped
            <3>2. CountedRight(ring[k].class.methods[m])
                BY <1>1 DEF RingInv, RingRight, LoadedOK
            <3>3. m < Len(ring[k].class.methods) => m # Len(ring[k].class.methods)
                BY <3>1
            <3> QED
                BY <1>1, <2>5, <3>2, <3>3 DEF RingInv, CodeKept
        <2> QED
            BY <2>6 DEF CallsFit
    <1> QED
        BY <1>1, RingAlways, LifeAlways, FileAlways, PTL

=============================================================================
