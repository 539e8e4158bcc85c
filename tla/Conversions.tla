---------------------------- MODULE Conversions ----------------------------
(***************************************************************************)
(* From a CV source or a MIDI controller to the value of a control port:   *)
(* the ranges that ports and sources get, and the conversions.  A state is *)
(* one mapping and the value of its source; a step raises that value, and  *)
(* goes from the highest to the lowest.                                    *)
(*                                                                         *)
(* Numbers are in fixed point, One for 1.0; the values are those of the    *)
(* 32-bit floats up to rounding.  The logarithmic scale is left out.       *)
(***************************************************************************)
EXTENDS Integers

CONSTANTS
  One,            \* 1.0; a tenth and a half of it are whole
  CvLimit,        \* limits a CV port may declare
  PortLimit,      \* limits a control port may declare, and mappings may have
  CvLevel,        \* the highest level of a CV signal; the lowest is -CvLevel
  CvStep,         \* the steps in which it is raised
  MidiTop         \* the highest values of a controller (7 and 14 bits in the code)

ASSUME ConversionsAssumption ==
  /\ One \in Nat \ {0} /\ One % 20 = 0
  /\ CvLimit \subseteq Int /\ PortLimit \subseteq Int
  /\ \A x \in CvLimit : x % 2 = 0     \* half of a range is whole
  /\ CvLevel \in Nat /\ CvStep \in Nat \ {0}
  /\ MidiTop \subseteq Nat /\ \A t \in MidiTop : t % 2 = 1

VARIABLE conversion

(* A limit that is declared is a singleton.                                *)
Declared(S) == {{}} \cup {{x} : x \in S}
Given(limit, default) == IF limit = {} THEN default ELSE CHOOSE x \in limit : TRUE

-----------------------------------------------------------------------------
(* Ranges, when a plugin is instantiated.                                  *)

Apart(lo, hi) == [min |-> lo, max |-> IF lo >= hi THEN lo + One \div 10 ELSE hi]

ControlRange(lo, hi) == Apart(Given(lo, 0), Given(hi, One))

(* HINT_CV_RANGES is set for a CV port that declares both, in this order.  *)
CvPortRange(lo, hi) ==
  LET a == Given(lo, -5 * One)
      b == Given(hi, 5 * One)
  IN  [range |-> Apart(a, b), declared |-> lo # {} /\ hi # {} /\ a < b]

-----------------------------------------------------------------------------
(* effects_cv_map: the range of a source by the name of its port, by the   *)
(* metadata of JACK, and by the effect it belongs to.                      *)

Source0(source) ==
  CASE source.from = "exp_pedal" -> [range |-> [min |-> 0, max |-> 5 * One], known |-> TRUE]
    [] source.from = "spi"       -> [range |-> [min |-> 0, max |-> 10 * One], known |-> TRUE]
    [] source.from = "metadata"  -> [range |-> Apart(source.lo, source.hi), known |-> TRUE]
    [] source.from = "effect"    ->
         LET p == CvPortRange(source.lo, source.hi)
         IN  [range |-> p.range, known |-> source.mod \/ p.declared]
    [] source.from = "other"     -> [range |-> [min |-> -5 * One, max |-> 5 * One],
                                     known |-> FALSE]

Width(r) == r.max - r.min

(* The range for an operational mode.                                      *)
ModeRange(mode, s) ==
  LET w == IF s.known THEN Width(s.range) ELSE One
  IN  CASE mode = "=" -> s.range
        [] mode = "-" -> [min |-> -w, max |-> 0]
        [] mode = "+" -> [min |-> 0, max |-> w]
        [] mode = "b" -> IF ~s.known THEN [min |-> -One, max |-> One]
                         ELSE IF s.range.min < 0 /\ s.range.max > 0 THEN s.range
                         ELSE [min |-> -(w \div 2), max |-> w \div 2]

(* Wrong: the mode "-" keeps the lower end.                                *)
CvSourceKeepsMin(source, mode) ==
  LET s == Source0(source)
  IN  [range |-> IF mode = "-" THEN [min |-> s.range.min, max |-> 0] ELSE ModeRange(mode, s),
       diff |-> Width(s.range)]

(* source_diff_value is that of the source, whatever the mode.             *)
CvSource(source, mode) ==
  LET s == Source0(source)
  IN  [range |-> ModeRange(mode, s), diff |-> Width(s.range)]

-----------------------------------------------------------------------------
(* ProcessPlugin.                                                          *)

Rounded(x) ==
  LET up(y) == (2 * y + One) \div (2 * One)
  IN  One * IF x >= 0 THEN up(x) ELSE -up(-x)

CvValue(port, s, level) ==
  CASE level <= s.range.min -> port.min
    [] level >= s.range.max -> port.max
    [] OTHER ->
         LET above == level - s.range.min    \* normalized, times diff
             value == port.min + (above * Width(port)) \div s.diff
         IN  IF port.toggle THEN IF 2 * above > s.diff THEN port.max ELSE port.min
             ELSE IF port.integer THEN Rounded(value) ELSE value

(* For the bypass, the ends are swapped and it is always a toggle.         *)
CvBypass(port, s, level) ==
  CASE level <= s.range.min -> port.max
    [] level >= s.range.max -> port.min
    [] OTHER -> IF 2 * (level - s.range.min) > s.diff THEN port.min ELSE port.max

-----------------------------------------------------------------------------
(* UpdateValueFromMidi; m has the limits of the mapping, port its own.     *)

(* Wrong: the top of the controller is not the top of the range.           *)
MidiValueShort(port, m, value, top) ==
  CASE port.trigger                   -> port.max
    [] ~port.trigger /\ port.toggle   -> IF 2 * value >= top + 1 THEN port.max ELSE port.min
    [] ~port.trigger /\ ~port.toggle  ->
         LET x == m.min + (value * Width(m)) \div (top + 1)
         IN  IF value = 0 THEN m.min ELSE IF port.integer THEN Rounded(x) ELSE x

MidiValue(port, m, value, top) ==
  CASE port.trigger                   -> port.max
    [] ~port.trigger /\ port.toggle   -> IF 2 * value >= top + 1 THEN port.max ELSE port.min
    [] ~port.trigger /\ ~port.toggle  ->
         LET x == m.min + (value * Width(m)) \div top
         IN  IF value = 0 THEN m.min ELSE IF value >= top THEN m.max
             ELSE IF port.integer THEN Rounded(x) ELSE x

-----------------------------------------------------------------------------
(* Mappings: a port of a control, and limits inside of its range; whole    *)
(* ones for an integer.                                                    *)

Limits(lo, hi, integer) ==
  {r \in [min : PortLimit, max : PortLimit] :
     /\ lo <= r.min /\ r.min < r.max /\ r.max <= hi
     /\ integer => r.min % One = 0 /\ r.max % One = 0}

ControlPort ==
  UNION {LET r == ControlRange(lo, hi)
         IN  {[min |-> r.min, max |-> r.max, toggle |-> k = "toggle",
               integer |-> k = "integer", trigger |-> k = "trigger"] :
                k \in {"toggle", "integer", "trigger", "float"}}
         : lo, hi \in Declared(PortLimit)}

CvOrigin ==
  [from : {"exp_pedal", "spi", "other"}]
    \cup [from : {"metadata"}, lo : CvLimit, hi : CvLimit]
    \cup [from : {"effect"}, lo : Declared(CvLimit), hi : Declared(CvLimit), mod : BOOLEAN]

Mapping(port) == Limits(port.min, port.max, port.integer)

CvMapping ==
  UNION {[by : {"cv"}, source : CvOrigin, mode : {"=", "-", "+", "b"},
          port : {[min |-> m.min, max |-> m.max, toggle |-> p.toggle, integer |-> p.integer] :
                    m \in Mapping(p)}] : p \in {q \in ControlPort : ~q.trigger}}

MidiMapping ==
  UNION {[by : {"midi"}, port : {p}, limits : Mapping(p), top : MidiTop] : p \in ControlPort}

ConversionsInit ==
  \/ \E c \in CvMapping : conversion = [at |-> -CvLevel, map |-> c]
  \/ \E c \in MidiMapping : conversion = [at |-> 0, map |-> c]

RaiseCv ==
  /\ conversion.map.by = "cv"
  /\ conversion' = [conversion EXCEPT !.at = IF @ + CvStep <= CvLevel THEN @ + CvStep ELSE -CvLevel]

RaiseMidi ==
  /\ conversion.map.by = "midi"
  /\ conversion' = [conversion EXCEPT !.at = (@ + 1) % (conversion.map.top + 1)]

ConversionsNext == RaiseCv \/ RaiseMidi

ConversionsSpec == ConversionsInit /\ [][ConversionsNext]_conversion

-----------------------------------------------------------------------------
(* Properties.                                                             *)

CvIn(c, level) == CvValue(c.port, CvSource(c.source, c.mode), level)
BypassIn(c, level) == CvBypass(c.port, CvSource(c.source, c.mode), level)
MidiIn(c, value) == MidiValue(c.port, c.limits, value, c.top)

Between(x, r) == r.min <= x /\ x <= r.max

(* The levels of the mode are no more than those the code divides by,      *)
(* which are the source's: otherwise the value leaves the range.           *)
Normal(c) == LET s == CvSource(c.source, c.mode) IN Width(s.range) <= s.diff

(* What a CV source or a controller makes of a parameter is in the range   *)
(* of its mapping (of the port, for toggles and triggers), never falls     *)
(* when the source rises, and gets to both ends; the bypass does the       *)
(* opposite.  CV sources whose range is narrower than the mode's and not   *)
(* known are left out.                                                     *)
ConversionsSound ==
  LET c == conversion.map
      at == conversion.at
  IN  /\ c.by = "cv" /\ Normal(c) =>
           LET s == CvSource(c.source, c.mode)
           IN  /\ Between(CvIn(c, at), c.port) /\ CvIn(c, at) <= CvIn(c, at + CvStep)
               /\ CvIn(c, s.range.min) = c.port.min /\ CvIn(c, s.range.max) = c.port.max
               /\ BypassIn(c, at) \in {c.port.min, c.port.max}
               /\ BypassIn(c, at) >= BypassIn(c, at + CvStep)
      /\ c.by = "midi" /\ ~c.port.trigger =>
           LET r == IF c.port.toggle THEN [min |-> c.port.min, max |-> c.port.max] ELSE c.limits
           IN  /\ Between(MidiIn(c, at), r) /\ MidiIn(c, 0) = r.min /\ MidiIn(c, c.top) = r.max
               /\ at < c.top => MidiIn(c, at) <= MidiIn(c, at + 1)

=============================================================================
