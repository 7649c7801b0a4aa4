------------------------------- MODULE Values -------------------------------
(***************************************************************************)
(* The values of the datatypes and the standard arrays of tst_types.c.  An *)
(* element is the sequence of the numbers it is made of.  Numbers count    *)
(* halves: a float has a smallest value FLT_MIN between 0 and 1, which is  *)
(* half a unit here.  Of an array only some elements are looked at: a      *)
(* sequence `at` of indices says which.                                    *)
(*                                                                         *)
(* A type is its kind and the least and the greatest number of each        *)
(* component.  The kind says what VALUE does with a number that does not   *)
(* fit: it is replaced by the limit ("bounded", the macros TST_TYPE_SET,   *)
(* _UNSIGNED and _STRUCT), or converted as C does (_CONTI and _MIX).       *)
(***************************************************************************)
EXTENDS Integers, SequencesExt

Number(n) == 2 * n
FltMin == 1                  \* 0 < FLT_MIN < 1
Between(least, greatest) == [lo |-> Number(least), hi |-> Number(greatest)]

Chars == Between(-128, 127)
UnsignedChars == Between(0, 255)
Shorts == Between(-32768, 32767)
Ints == Between(-8388608, 8388607)       \* wider than anything that is put into it
Floats == [lo |-> FltMin, hi |-> Number(8388607)]

Type(kind, components) == [kind |-> kind, components |-> components]

(* Types by their names in the table of types.                              *)
Types ==
  [char |-> Type("bounded", <<Chars>>), unsignedchar |-> Type("bounded", <<UnsignedChars>>),
   shorts |-> Type("bounded", <<Shorts>>), int |-> Type("bounded", <<Ints>>),
   double |-> Type("float", <<Floats>>),
   shortint |-> Type("bounded", <<Shorts, Ints>>), floatint |-> Type("bounded", <<Floats, Ints>>),
   intconti |-> Type("converted", <<Ints>>), mix |-> Type("converted", <<Chars, Ints>>)]

(* DEFAULT_INIT_BYTE: what is in memory that nobody has set.                *)
Unset == << >>

-----------------------------------------------------------------------------

Clamp(c, n) == IF n > c.hi THEN c.hi ELSE IF n < c.lo THEN c.lo ELSE n

(* The conversion of a number to an integer type of the width of c.        *)
Convert(c, n) == LET width == c.hi - c.lo + Number(1) IN c.lo + ((n - c.lo) % width)

(* tst_type_setvalue.  The value 0 of a float is 0, and not FLT_MIN.       *)
SetMin(type) == [i \in DOMAIN Types[type].components |-> Types[type].components[i].lo]
SetMax(type) == [i \in DOMAIN Types[type].components |-> Types[type].components[i].hi]
SetValue(type, n) ==
  LET cs == Types[type].components
  IN  CASE Types[type].kind = "float" /\ n = 0 -> <<0>>
        [] Types[type].kind = "converted" -> [i \in DOMAIN cs |-> Convert(cs[i], Number(n))]
        [] OTHER -> [i \in DOMAIN cs |-> Clamp(cs[i], Number(n))]

(* tst_type_setstandardarray.                                              *)
StandardElement(type, i, rank) ==
  CASE i = 0 -> SetMin(type) [] i = 1 -> SetMax(type) [] OTHER -> SetValue(type, rank + i)
StandardArray(type, at, rank) == [k \in DOMAIN at |-> StandardElement(type, at[k], rank)]

AllocValues(at) == [k \in DOMAIN at |-> Unset]

(* The operations of MPI on elements, and on arrays of them.               *)
Combine(fun, e, f) ==
  IF Unset \in {e, f} THEN Unset
  ELSE [i \in DOMAIN e |->
         CASE fun = "sum" -> e[i] + f[i]
           [] fun = "max" -> IF e[i] > f[i] THEN e[i] ELSE f[i]
           [] fun = "min" -> IF e[i] < f[i] THEN e[i] ELSE f[i]]
CombineArrays(fun, a, b) == [k \in DOMAIN a |-> Combine(fun, a[k], b[k])]
=============================================================================
