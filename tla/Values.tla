-------------------------------- MODULE Values --------------------------------
(***************************************************************************)
(* The values of the built-in simple types, how they are written and how   *)
(* they are ordered (src/schema/xsd: primitive.rs, value_compare.rs).      *)
(*                                                                         *)
(* A text is [words, white]: its words, and "clean" when there is nothing  *)
(* around them and one space between them, "spaces" when a space precedes  *)
(* them, "tabs" when a tab does.  A word is one of                         *)
(*   [form |-> "number", sign, int, point, frac, exp]                      *)
(*   [form |-> "literal", is]       true, false, INF, +INF, -INF, NaN      *)
(*   [form |-> "name", chars]       a sequence of characters               *)
(*   [form |-> "temporal", shape, year, month, day, hour, minute, second,  *)
(*      tenths, zone]               a field that its shape lacks is 2000   *)
(*                                  for the year, 1, or 0                  *)
(*   [form |-> "duration", negative, years, months, days, t, hours,        *)
(*      minutes, seconds, tenths]                                          *)
(* with digits from 0 to 9, zone [sign, hours, minutes], and Absent where  *)
(* a part is not written.                                                  *)
(***************************************************************************)
EXTENDS Integers, SequencesExt

CONSTANT Absent

Clean(words) == [words |-> words, white |-> "clean"]

(* collapse, collapse_whitespace, str::trim of a single word               *)
Collapsed(text) == Clean(text.words)

(* PrimitiveKind: the built-in types whose values are checked, by name.    *)
SignedKinds == {"long", "int", "short", "byte"}
UnsignedKinds == {"unsignedLong", "unsignedInt", "unsignedShort", "unsignedByte"}
IntegerKinds == SignedKinds \cup UnsignedKinds
  \cup {"integer", "nonNegativeInteger", "positiveInteger", "nonPositiveInteger", "negativeInteger"}
DecimalKinds == IntegerKinds \cup {"decimal"}
FloatKinds == {"float", "double"}
TemporalKinds == {"date", "dateTime", "time", "gYear", "gYearMonth", "gMonth", "gMonthDay", "gDay"}
DurationKinds == {"duration", "dayTimeDuration", "yearMonthDuration"}
TextKinds == {"hexBinary", "base64Binary", "anyURI", "QName", "Name", "NCName", "NMTOKEN", "language", "ID", "IDREF", "ENTITY"}
OrderedKinds == DecimalKinds \cup FloatKinds \cup TemporalKinds \cup DurationKinds \cup {"dateTimeStamp"}
Kinds == OrderedKinds \cup TextKinds \cup {"boolean"}

(* PrimitiveKind::from_type_name                                           *)
KindNamed(name) ==
  IF name = "NOTATION" THEN "QName" ELSE IF name \in Kinds THEN name ELSE Absent

-------------------------------------------------------------------------------
(* Orders: "<", "=", ">", or Absent when there is none.                    *)

CompareInts(m, n) == IF m < n THEN "<" ELSE IF m = n THEN "=" ELSE ">"

ThenBy(first, second) == IF first # "=" THEN first ELSE second

CompareDigits(s, t) ==
  LET differ == {i \in DOMAIN s \cap DOMAIN t : s[i] # t[i]}
  IN  IF differ = {} THEN CompareInts(Len(s), Len(t))
      ELSE CompareInts(s[Min(differ)], t[Min(differ)])

Flipped(order) == CASE order = "<" -> ">" [] order = ">" -> "<" [] OTHER -> order

-------------------------------------------------------------------------------
(* Numbers.                                                                *)

Written(w) == w.form = "number" /\ (w.int # <<>> \/ w.frac # <<>>)

IsInteger(w) == Written(w) /\ w.int # <<>> /\ ~w.point /\ w.exp = Absent

IsDecimal(w) == Written(w) /\ w.exp = Absent

IsDouble(w) == Written(w) \/ (w.form = "literal" /\ w.is \in {"INF", "+INF", "-INF", "NaN"})

WithoutLeadingZeros(s) ==
  LET digits == {i \in DOMAIN s : s[i] # 0} IN IF digits = {} THEN <<>> ELSE SubSeq(s, Min(digits), Len(s))

WithoutTrailingZeros(s) ==
  LET digits == {i \in DOMAIN s : s[i] # 0} IN IF digits = {} THEN <<>> ELSE SubSeq(s, 1, Max(digits))

Magnitude(sign, int, frac) ==
  LET i == WithoutLeadingZeros(int)
      f == WithoutTrailingZeros(frac)
  IN  [negative |-> sign = "-" /\ (i # <<>> \/ f # <<>>), int |-> i, frac |-> f]

(* parse_decimal                                                           *)
ParseDecimal(w) == IF IsDecimal(w) THEN Magnitude(w.sign, w.int, w.frac) ELSE Absent

CompareMagnitudes(x, y) ==
  LET longer == ThenBy(CompareInts(Len(x.int), Len(y.int)),
                       ThenBy(CompareDigits(x.int, y.int), CompareDigits(x.frac, y.frac)))
  IN  IF Absent \in {x, y} THEN Absent
      ELSE IF x.negative # y.negative THEN (IF x.negative THEN "<" ELSE ">")
      ELSE IF x.negative THEN Flipped(longer) ELSE longer

(* compare_decimals                                                        *)
CompareDecimals(v, w) == CompareMagnitudes(ParseDecimal(v), ParseDecimal(w))

(* parse_xsd_float, exactly: the point is moved by the exponent.           *)
ParseFloat(w) ==
  IF ~IsDouble(w) THEN Absent
  ELSE IF w.form = "literal" THEN [special |-> w.is]
  ELSE LET digits   == w.int \o w.frac
           point    == Len(w.int) + (IF w.exp = Absent THEN 0 ELSE w.exp)
           Zeros(n) == [i \in 1 .. n |-> 0]
           padded   == Zeros(-point) \o digits \o Zeros(point - Len(digits))
           split    == IF point < 0 THEN 0 ELSE point
       IN  [special |-> "none", minus |-> w.sign = "-"]
             @@ Magnitude(w.sign, SubSeq(padded, 1, split), SubSeq(padded, split + 1, Len(padded)))

Infinity(x) == CASE x.special = "-INF" -> -1 [] x.special \in {"INF", "+INF"} -> 1 [] OTHER -> 0

CompareSpecials(x, y) ==
  IF Absent \in {x, y} THEN Absent
  ELSE IF "NaN" \in {x.special, y.special} THEN Absent
  ELSE IF {x.special, y.special} = {"none"} THEN CompareMagnitudes(x, y)
  ELSE CompareInts(Infinity(x), Infinity(y))

(* compare_floats                                                          *)
CompareFloats(v, w) == CompareSpecials(ParseFloat(v), ParseFloat(w))

Number(sign, int) == [form |-> "number", sign |-> sign, int |-> int, point |-> FALSE, frac |-> <<>>, exp |-> Absent]

(* InheritedFacets::builtin_primitive, validate_bounded_integer,           *)
(* validate_signed_integer, validate_unsigned_range                        *)
LeastOf(kind) ==
  CASE kind = "long"  -> Number("-", <<9,2,2,3,3,7,2,0,3,6,8,5,4,7,7,5,8,0,8>>)
    [] kind = "int"   -> Number("-", <<2,1,4,7,4,8,3,6,4,8>>)
    [] kind = "short" -> Number("-", <<3,2,7,6,8>>)
    [] kind = "byte"  -> Number("-", <<1,2,8>>)
    [] kind = "positiveInteger" -> Number("", <<1>>)
    [] kind \in UnsignedKinds \cup {"nonNegativeInteger"} -> Number("", <<0>>)
    [] OTHER -> Absent

GreatestOf(kind) ==
  CASE kind = "long"  -> Number("", <<9,2,2,3,3,7,2,0,3,6,8,5,4,7,7,5,8,0,7>>)
    [] kind = "int"   -> Number("", <<2,1,4,7,4,8,3,6,4,7>>)
    [] kind = "short" -> Number("", <<3,2,7,6,7>>)
    [] kind = "byte"  -> Number("", <<1,2,7>>)
    [] kind = "unsignedLong"  -> Number("", <<1,8,4,4,6,7,4,4,0,7,3,7,0,9,5,5,1,6,1,5>>)
    [] kind = "unsignedInt"   -> Number("", <<4,2,9,4,9,6,7,2,9,5>>)
    [] kind = "unsignedShort" -> Number("", <<6,5,5,3,5>>)
    [] kind = "unsignedByte"  -> Number("", <<2,5,5>>)
    [] kind = "nonPositiveInteger" -> Number("", <<0>>)
    [] kind = "negativeInteger"    -> Number("-", <<1>>)
    [] OTHER -> Absent

InRange(kind, w) ==
  /\ LeastOf(kind) # Absent => CompareDecimals(w, LeastOf(kind)) # "<"
  /\ GreatestOf(kind) # Absent => CompareDecimals(w, GreatestOf(kind)) # ">"

-------------------------------------------------------------------------------
(* Dates and times.                                                        *)

IsLeapYear(year) == year % 4 = 0 /\ (year % 100 = 0 => year % 400 = 0)

DaysIn(year, month) ==
  CASE month \in {4, 6, 9, 11} -> 30 [] month = 2 -> (IF IsLeapYear(year) THEN 29 ELSE 28) [] OTHER -> 31

(* validate_year_month_day; the fields a shape lacks are in order          *)
ValidDay(w) == w.month \in 1 .. 12 /\ w.day \in 1 .. DaysIn(w.year, w.month)

(* Midnight at the end of a day; as a time, not with a fraction.           *)
ValidTime(w) ==
  /\ w.hour <= 23 \/ (w.hour = 24 /\ w.minute = 0 /\ w.second = 0 /\ (w.shape = "time" => w.tenths = Absent))
  /\ w.minute <= 59 /\ w.second <= 60

(* validate_timezone                                                       *)
ValidZone(zone) ==
  zone # Absent => zone.minutes <= 59 /\ (zone.hours < 14 \/ (zone.hours = 14 /\ zone.minutes = 0))

(* The form of gMonth before its erratum is still read.                    *)
ShapesOf(kind) ==
  CASE kind = "gMonth" -> {"gMonth", "gMonth--"} [] kind = "dateTimeStamp" -> {"dateTime"} [] OTHER -> {kind}

ValidTemporal(kind, w) ==
  /\ w.form = "temporal" /\ w.shape \in ShapesOf(kind)
  /\ ValidDay(w) /\ ValidTime(w) /\ ValidZone(w.zone)
  /\ kind = "dateTimeStamp" => w.zone # Absent

(* days_from_civil: from 1970-01-01; years begin with March                *)
DaysFromCivil(y, m, d) ==
  LET year == IF m <= 2 THEN y - 1 ELSE y
      era  == year \div 400
      yoe  == year - era * 400
      doy  == (153 * ((m + 9) % 12) + 2) \div 5 + d - 1
  IN  era * 146097 + yoe * 365 + yoe \div 4 - yoe \div 100 + doy - 719468

Tenths(w) == w.second * 10 + (IF w.tenths = Absent THEN 0 ELSE w.tenths)

Offset(zone) == IF zone = Absent THEN 0 ELSE zone.sign * (zone.hours * 60 + zone.minutes)

(* Without the zone.                                                       *)
TemporalKeyAsWritten(kind, w) ==
  IF w.form # "temporal" \/ w.shape \notin ShapesOf(kind) THEN Absent
  ELSE LET t == (w.hour * 60 + w.minute) * 600 + Tenths(w)
       IN  [day |-> DaysFromCivil(w.year, w.month, w.day) + t \div 864000, tenths |-> t % 864000]

(* temporal_key, in days and tenths of seconds; a time without a zone is   *)
(* taken for UTC                                                           *)
TemporalKey(kind, w) ==
  IF w.form # "temporal" \/ w.shape \notin ShapesOf(kind) THEN Absent
  ELSE LET t == (w.hour * 60 + w.minute - Offset(w.zone)) * 600 + Tenths(w)
       IN  [day |-> DaysFromCivil(w.year, w.month, w.day) + t \div 864000, tenths |-> t % 864000]

CompareKeys(x, y) ==
  IF Absent \in {x, y} THEN Absent
  ELSE ThenBy(CompareInts(x.day, y.day), CompareInts(x.tenths, y.tenths))

CompareTemporals(kind, v, w) == CompareKeys(TemporalKey(kind, v), TemporalKey(kind, w))

-------------------------------------------------------------------------------
(* Durations.                                                              *)

HasDate(w) == {w.years, w.months, w.days} # {Absent}

HasTime(w) == {w.hours, w.minutes, w.seconds} # {Absent}

(* validate_daytimeduration, validate_yearmonthduration                    *)
IsDayTime(w) == w.years = Absent /\ w.months = Absent

IsYearMonth(w) == w.days = Absent /\ ~w.t

(* validate_duration                                                       *)
ValidDuration(kind, w) ==
  /\ w.form = "duration"
  /\ HasDate(w) \/ w.t
  /\ w.t <=> HasTime(w)
  /\ kind = "dayTimeDuration" => IsDayTime(w)
  /\ kind = "yearMonthDuration" => IsYearMonth(w)

(* parse_duration: months, and tenths of seconds                           *)
ParseDuration(w) ==
  LET N(n) == IF n = Absent THEN 0 ELSE n
      s    == IF w.negative THEN -1 ELSE 1
  IN  IF w.form # "duration" THEN Absent
      ELSE IF ~ValidDuration("duration", w) THEN Absent
      ELSE [months |-> s * (12 * N(w.years) + N(w.months)),
            tenths |-> s * ((((N(w.days) * 24 + N(w.hours)) * 60 + N(w.minutes)) * 60 + N(w.seconds)) * 10 + N(w.tenths))]

CompareSpans(x, y) ==
  LET months == CompareInts(x.months, y.months)
      time   == CompareInts(x.tenths, y.tenths)
  IN  IF Absent \in {x, y} THEN Absent
      ELSE IF months = "=" THEN time
      ELSE IF time \in {"=", months} THEN months ELSE Absent

(* compare_durations                                                       *)
CompareDurations(v, w) == CompareSpans(ParseDuration(v), ParseDuration(w))

-------------------------------------------------------------------------------
(* Names and binaries, character by character.                             *)

HexLetters == {"a", "e", "f", "A", "F"}
Letters == HexLetters \cup {"g", "l", "r", "s", "t", "u", "x", "I", "N", "Q", "Z"}
DigitChars == <<"0", "1", "2", "3", "4", "5", "6", "7", "8", "9">>
Alphanumeric == Letters \cup Range(DigitChars)
Wide == "a letter beyond ASCII"

Spelled(literal) ==
  CASE literal = "true"  -> <<"t", "r", "u", "e">>
    [] literal = "false" -> <<"f", "a", "l", "s", "e">>
    [] literal = "NaN"   -> <<"N", "a", "N">>
    [] literal = "INF"   -> <<"I", "N", "F">>
    [] literal = "+INF"  -> <<"+", "I", "N", "F">>
    [] literal = "-INF"  -> <<"-", "I", "N", "F">>

(* (Numbers with exponents, dates and durations are not taken for names.)  *)
Chars(w) ==
  CASE w.form = "name"    -> w.chars
    [] w.form = "literal" -> Spelled(w.is)
    [] w.form = "number"  ->
         LET Digits(s) == [i \in DOMAIN s |-> DigitChars[s[i] + 1]]
         IN  (IF w.sign = "" THEN <<>> ELSE <<w.sign>>) \o Digits(w.int) \o (IF w.point THEN <<".">> ELSE <<>>) \o Digits(w.frac)
    [] OTHER -> <<"!">>

Among(chars, set) == Range(chars) \subseteq set

(* is_name_start_char, is_name_char                                        *)
NameStart == Letters \cup {"_", ":", Wide}
NameChar == NameStart \cup Alphanumeric \cup {"-", "."}

(* validate_name, validate_ncname, validate_nmtoken                        *)
IsName(s) == s # <<>> /\ Head(s) \in NameStart /\ Among(s, NameChar)

IsNCName(s) == IsName(s) /\ ":" \notin Range(s)

IsNmtoken(s) == s # <<>> /\ Among(s, NameChar)

PartsAt(separator, s) ==
  FoldLeft(LAMBDA parts, c : IF c = separator THEN Append(parts, <<>>) ELSE [parts EXCEPT ![Len(parts)] = Append(@, c)],
           <<<<>>>>, s)

(* validate_qname                                                          *)
IsQName(s) ==
  LET parts == PartsAt(":", s)
  IN  /\ Len(parts) <= 2
      /\ \A p \in Range(parts) : IsNCName(p)

(* validate_language                                                       *)
IsLanguage(s) ==
  LET parts == PartsAt("-", s)
  IN  /\ Among(Head(parts), Letters) /\ Among(s, Alphanumeric \cup {"-"})
      /\ \A p \in Range(parts) : Len(p) \in 1 .. 8

(* validate_hexbinary                                                      *)
IsHex(s) == Len(s) % 2 = 0 /\ Among(s, HexLetters \cup Range(DigitChars))

Padding(s) == LET rest == {i \in DOMAIN s : s[i] # "="} IN IF rest = {} THEN Len(s) ELSE Len(s) - Max(rest)

(* validate_base64binary; the last character before the padding has no     *)
(* bits that are lost                                                      *)
IsBase64(s) ==
  LET body == SubSeq(s, 1, Len(s) - Padding(s))
  IN  /\ Len(s) % 4 = 0 /\ Padding(s) <= 2
      /\ Among(body, Alphanumeric \cup {"+", "/"})
      /\ Padding(s) > 0 => body # <<>> /\ Last(body) \in {"A", "Q", "g"} \cup (IF Padding(s) = 1 THEN {"I", "s", "0", "4", "8"} ELSE {})

(* base64_decoded_len                                                      *)
DecodedLength(s) ==
  IF Len(s) % 4 = 0 THEN (IF Padding(s) = 0 THEN 0 ELSE -Min({Padding(s), 2})) + 3 * (Len(s) \div 4)
  ELSE (3 * Len(s)) \div 4

-------------------------------------------------------------------------------
(* PrimitiveKind::validate                                                 *)

Booleans == {[form |-> "literal", is |-> "true"], [form |-> "literal", is |-> "false"], Number("", <<1>>), Number("", <<0>>)}

ValidWord(kind, w) ==
  CASE kind = "boolean"         -> w \in Booleans
    [] kind = "decimal"         -> IsDecimal(w)
    [] kind \in FloatKinds      -> IsDouble(w)
    [] kind \in IntegerKinds    -> IsInteger(w) /\ InRange(kind, w)
    [] kind \in TemporalKinds \cup {"dateTimeStamp"} -> ValidTemporal(kind, w)
    [] kind \in DurationKinds   -> ValidDuration(kind, w)
    [] kind = "hexBinary"       -> IsHex(Chars(w))
    [] kind = "QName"           -> IsQName(Chars(w))
    [] kind = "Name"            -> IsName(Chars(w))
    [] kind = "NMTOKEN"         -> IsNmtoken(Chars(w))
    [] kind = "language"        -> IsLanguage(Chars(w))
    [] kind \in {"NCName", "ID", "IDREF", "ENTITY"} -> IsNCName(Chars(w))

AllChars(text) == FlattenSeq([i \in DOMAIN text.words |-> Chars(text.words[i])])

Valid(kind, text) ==
  CASE kind = "anyURI"       -> TRUE
    [] kind = "base64Binary" -> IsBase64(AllChars(text))
    [] OTHER -> IF text.words = <<>> THEN kind = "hexBinary" ELSE Len(text.words) = 1 /\ ValidWord(kind, text.words[1])

-------------------------------------------------------------------------------
(* compare_values.  Numbers are compared as they stand, dates and          *)
(* durations without the white space around them.                          *)

CompareWords(kind, v, w) ==
  CASE kind \in DecimalKinds              -> CompareDecimals(v, w)
    [] kind \in FloatKinds \cup {Absent}  -> CompareFloats(v, w)
    [] kind \in TemporalKinds \cup {"dateTimeStamp"} -> CompareTemporals(kind, v, w)
    [] kind \in DurationKinds             -> CompareDurations(v, w)
    [] OTHER                              -> Absent

CompareTexts(kind, s, t) ==
  LET Trims       == kind \in OrderedKinds \ (DecimalKinds \cup FloatKinds)
      Single(u)   == Len(u.words) = 1 /\ (Trims \/ u.white = "clean")
  IN  IF Single(s) /\ Single(t) THEN CompareWords(kind, s.words[1], t.words[1]) ELSE Absent

(* Floats and doubles under one tag.                                       *)
ClassTagOfFloats(kind) ==
  CASE kind \in DecimalKinds                  -> "num"
    [] kind \in DurationKinds                 -> "dur"
    [] kind \in {"dateTime", "dateTimeStamp"} -> "dt"
    [] kind \in FloatKinds                    -> "flt"
    [] kind \in TemporalKinds \cup {"boolean"} -> kind
    [] OTHER                                  -> Absent

(* primitive_class_tag                                                     *)
ClassTag(kind) ==
  CASE kind \in DecimalKinds                  -> "num"
    [] kind \in DurationKinds                 -> "dur"
    [] kind \in {"dateTime", "dateTimeStamp"} -> "dt"
    [] kind \in FloatKinds \cup TemporalKinds \cup {"boolean"} -> kind
    [] OTHER                                  -> Absent

(* canonical_value: of a duration or a dateTimeStamp, the text             *)
CanonicalWord(kind, w) ==
  CASE kind \in DecimalKinds  -> ParseDecimal(w)
    [] kind \in FloatKinds    ->
         LET x == ParseFloat(w)
         IN  IF x = Absent \/ w.form = "number" THEN x ELSE [special |-> IF w.is = "+INF" THEN "INF" ELSE w.is]
    [] kind \in TemporalKinds -> TemporalKey(kind, w)
    [] kind = "boolean"       -> CASE w = Number("", <<1>>) -> [form |-> "literal", is |-> "true"]
                                   [] w = Number("", <<0>>) -> [form |-> "literal", is |-> "false"]
                                   [] OTHER -> w
    [] OTHER                  -> Absent

(* canonical_value, identity_key                                           *)
IdentityKey(kind, text) ==
  LET canonical == IF Len(text.words) = 1 THEN CanonicalWord(kind, text.words[1]) ELSE Absent
  IN  <<ClassTag(kind), IF canonical = Absent THEN Collapsed(text) ELSE canonical>>

===============================================================================
