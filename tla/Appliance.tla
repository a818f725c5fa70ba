----------------------------- MODULE Appliance -----------------------------
(***************************************************************************)
(* The two combined commands of an appliance: work mode and its level, and *)
(* target temperature and auto stop.  Govee takes each pair as one STRUCT, *)
(* the adapter shows each half as a datapoint of its own.  A write to one  *)
(* half reads the other from the object tree                               *)
(* (handlers/state-change-router.ts), the pair is put together from what   *)
(* the device declares (capability-mapper.ts), and the answers of          *)
(* /device/state are taken apart again (handlers/cloud-state-loader.ts).   *)
(* A level belongs to a mode, levels of two modes may be the same number,  *)
(* and a heater counts in whole degrees Fahrenheit.                        *)
(***************************************************************************)
EXTENDS Integers, Sequences, SequencesExt, NoValue

CONSTANTS Shapes,          \* what the device declares, with the bounds: writes, changes made at the device
          Levels,          \* numbers a level may have, in a write or in an answer
          Wishes           \* temperatures written, in tenths of a degree Celsius

\* A work mode: modes, and per mode a list of levels, or a range, or a default;
\* "flat" levels belong to every mode; a "bare" range stands on the modeValue field
\* itself, which then lists nothing.  A heater: a range, in the device's unit, and whether
\* it stands on a field called just "temperature" (inField) or elsewhere: on
\* targetTemperature, on a field with temperature in its name, on the capability.
ModeShape(s) ==
    /\ s.modes \in Seq(Levels) /\ s.modes # <<>> /\ s.flat \in Seq(Levels) /\ s.named \in BOOLEAN
    /\ s.list \in [ToSet(s.modes) -> Seq(Levels)] /\ s.dflt \in [ToSet(s.modes) -> Levels]
    /\ s.range \in [ToSet(s.modes) -> (Levels \X Levels) \cup {None}]
    /\ \A m \in ToSet(s.modes) : s.range[m] # None => s.range[m][1] <= s.range[m][2]
    /\ s.bare \in (Levels \X Levels) \cup {None}
    /\ s.bare # None => /\ s.bare[1] <= s.bare[2] /\ s.flat = <<>>
                        /\ \A m \in ToSet(s.modes) : s.list[m] = <<>> /\ s.range[m] = None /\ s.dflt[m] = 0
HeatShape(s) == s.inField \in BOOLEAN /\ s.lo \in Int /\ s.hi \in Int /\ s.lo < s.hi /\ s.fahrenheit \in BOOLEAN /\ s.stops \subseteq {0, 1}

ASSUME ApplianceAssumption ==
    /\ \A s \in Shapes : {s.ops, s.turns} \subseteq Nat
    /\ \A s \in Shapes : \/ s.kind = "mode" /\ ModeShape(s)
                         \/ s.kind = "heat" /\ HeatShape(s)
    /\ Levels \subseteq Nat /\ Wishes \subseteq Int

VARIABLES
    shape,       \* the declared capability
    dev,         \* what the device does: a pair of halves
    reach,       \* Govee reaches the device
    memory,      \* what Govee remembers of it
    cell,        \* the two datapoints: value, confirmed, who wrote it
    ops,         \* the writes under way
    answer,      \* a /device/state answer that was not written yet
    count,       \* bound
    quiet,       \* history: nothing moved since the answer was given
    fresh        \* history: nothing moved since an answer was written

applianceVars == <<shape, dev, reach, memory, cell, ops, answer, count, quiet, fresh>>

\* Half 1: work_mode or target_temperature; half 2: mode_value or auto_stop.
Half == {1, 2}
IsMode == shape.kind = "mode"
Modes == ToSet(shape.modes)

-----------------------------------------------------------------------------
\* Degrees.  A heater in Fahrenheit holds whole degrees; datapoints are tenths of a degree Celsius.
RoundUp(a, b) == (2 * a + b) \div (2 * b)      \* Math.round(a / b)
fahrenheitToCelsius(f) == RoundUp(50 * (f - 32), 9)

\* Wrong: cut off instead of rounded.
CutToFahrenheit(c) == (9 * c + 1600) \div 50
celsiusToFahrenheit(c) == RoundUp(9 * c + 1600, 50)

Within(v, lo, hi) == IF v < lo THEN lo ELSE IF v > hi THEN hi ELSE v

\* Wrong: the range is left to Govee.
Unclamped(c) == IF shape.fahrenheit THEN celsiusToFahrenheit(c) ELSE c

\* targetTemperatureInCelsius, and the value a write is confirmed with.
TemperatureShown(v) == IF shape.fahrenheit THEN fahrenheitToCelsius(v) ELSE v
TemperatureTaken(c) ==
    LET asked == IF shape.fahrenheit THEN celsiusToFahrenheit(c) ELSE c IN
    IF shape.inField THEN Within(asked, shape.lo, shape.hi) ELSE asked

-----------------------------------------------------------------------------
\* classifyModeLevels: a dropdown needs names and one owner for each number.
Listed == UNION {ToSet(shape.list[m]) : m \in Modes} \cup ToSet(shape.flat)
HasRange == \E m \in Modes : shape.list[m] = <<>> /\ shape.range[m] # None
Owners(v) == {m \in Modes : v \in ToSet(shape.list[m])} \cup {None : x \in {v} \cap ToSet(shape.flat)}
Collides == \E v \in Listed : \E m, n \in Owners(v) : m # n

classifyModeLevels ==
    IF Listed = {} /\ ~HasRange THEN "none"
    ELSE IF shape.named /\ ~Collides /\ ~HasRange THEN "dropdown" ELSE "number"

\* The kind of datapoint a level has.
modeLevelKind == IF shape.bare # None THEN "number" ELSE classifyModeLevels

\* The option a value names; the first one where it names none.
OptionOr(options, v) == IF v \in ToSet(options) THEN v ELSE options[1]

OwnLevels(m) == IF shape.list[m] # <<>> THEN shape.list[m] ELSE shape.flat

\* Wrong: a level goes out under the mode the tree shows.
ModeOfTree(written, m, v) == m

\* resolveWorkModeStruct.  A level written to the dropdown brings its mode along.
ModeOf(written, m, v) ==
    IF written = 2 /\ classifyModeLevels = "dropdown" /\ \E o \in Modes : v \in ToSet(shape.list[o])
    THEN CHOOSE o \in Modes : v \in ToSet(shape.list[o]) ELSE m

\* Wrong: the level of the tree goes out under any mode.
LevelAsWritten(m, v) == IF v # None THEN v ELSE shape.dflt[m]
LevelOf(m, v) ==
    IF OwnLevels(m) # <<>> THEN OptionOr(OwnLevels(m), v)
    ELSE IF shape.range[m] # None
    THEN IF v = None THEN shape.range[m][1] ELSE Within(v, shape.range[m][1], shape.range[m][2])
    ELSE shape.dflt[m]

\* The command of two values, or None where there is nothing to send.
resolveWorkModeStruct(written, m, v) ==
    LET mode == ModeOf(written, m, v) IN
    IF mode \notin Modes THEN None ELSE <<mode, LevelOf(mode, v)>>

\* sendTargetTemperatureCommand: no auto stop goes out where none is declared or known.
TemperatureStruct(written, t, stop) ==
    IF t = None \/ (written = 2 /\ stop \notin shape.stops) THEN None
    ELSE <<TemperatureTaken(t), IF stop \in shape.stops THEN stop ELSE None>>

StructOf(written, a, b) ==
    IF IsMode THEN resolveWorkModeStruct(written, a, b) ELSE TemperatureStruct(written, a, b)

-----------------------------------------------------------------------------
\* The list a datapoint shows; None: a number, or no datapoint.
mapWorkMode(h) == IF h = 1 THEN Modes ELSE IF classifyModeLevels = "dropdown" THEN Listed ELSE None
mapAutoStop(h) == IF h = 2 THEN shape.stops ELSE None
ListOfPoint(h) == IF IsMode THEN mapWorkMode(h) ELSE mapAutoStop(h)
HasPoint(h) == h = 1 \/ (IF IsMode THEN modeLevelKind # "none" ELSE shape.stops # {})

Carries(h, v) == IF ListOfPoint(h) = None THEN TRUE ELSE v \in ListOfPoint(h)

\* resolveDropdownInput lets the sentinel 0 and a number through.
Enters(h, v) == HasPoint(h) /\ (v # 0 => Carries(h, v))

SetCell(h, v, by) == [cell EXCEPT ![h] = [val |-> v, ack |-> by # "wish", by |-> by]]

-----------------------------------------------------------------------------
\* History: nothing moved since the tree showed the device, which an open write relies on.
Unsure == [i \in DOMAIN ops |-> [ops[i] EXCEPT !.sure = FALSE]]

Written(h) == IF IsMode THEN Levels ELSE IF h = 1 THEN Wishes ELSE {0, 1}

\* A script, an app or the user writes one half: it is in the tree before the handler runs.
UserWrites(h, v) ==
    /\ count.ops < shape.ops /\ Enters(h, v)
    /\ count' = [count EXCEPT !.ops = @ + 1]
    /\ cell' = SetCell(h, v, "wish")
    /\ ops' = Append(Unsure, [half |-> h, val |-> v, at |-> "read", cmd |-> None, sure |-> fresh])
    /\ quiet' = FALSE /\ fresh' = FALSE
    /\ UNCHANGED <<shape, dev, reach, memory, answer>>

Other(h) == 3 - h
Sibling(h) == IF HasPoint(Other(h)) THEN cell[Other(h)] ELSE [val |-> None, ack |-> FALSE, by |-> "none"]

\* sendWorkModeCommand, sendTargetTemperatureCommand: the other half comes from the tree.
SendCombined(i) ==
    /\ i \in DOMAIN ops /\ ops[i].at = "read"
    /\ LET o == ops[i]
           s == Sibling(o.half)
           c == IF o.half = 1 THEN StructOf(1, o.val, s.val) ELSE StructOf(2, s.val, o.val)
       IN ops' = IF c = None THEN RemoveAt(ops, i)
                 ELSE [ops EXCEPT ![i].at = "queued", ![i].cmd = c]
    /\ UNCHANGED <<shape, dev, reach, memory, cell, answer, count, quiet, fresh>>

\* Govee takes the command; calls in flight overtake each other.
GoveeTakes(i) ==
    /\ i \in DOMAIN ops /\ ops[i].at = "queued" /\ reach
    /\ dev' = <<ops[i].cmd[1], IF ops[i].cmd[2] = None THEN dev[2] ELSE ops[i].cmd[2]>>
    /\ memory' = dev'
    /\ ops' = [Unsure EXCEPT ![i].at = "taken"]
    /\ quiet' = FALSE /\ fresh' = FALSE
    /\ UNCHANGED <<shape, reach, cell, answer, count>>

\* The command failed: the wish stays unconfirmed.
GoveeRefuses(i) ==
    /\ i \in DOMAIN ops /\ ops[i].at = "queued"
    /\ ops' = RemoveAt(ops, i)
    /\ UNCHANGED <<shape, dev, reach, memory, cell, answer, count, quiet, fresh>>

\* ackUnlessReported: an appliance has no report, so the value is confirmed here.
Acknowledge(i) ==
    /\ i \in DOMAIN ops /\ ops[i].at = "taken"
    /\ LET o == ops[i]
           v == IF ~IsMode /\ o.half = 1 THEN TemperatureShown(o.cmd[1]) ELSE o.val
       IN cell' = SetCell(o.half, v, "ack")
    /\ ops' = RemoveAt(Unsure, i)
    /\ fresh' = FALSE /\ quiet' = FALSE
    /\ UNCHANGED <<shape, dev, reach, memory, answer, count>>

-----------------------------------------------------------------------------
\* The device itself, and Govee's view of it.
Turn(pair) ==
    /\ count.turns < shape.turns /\ dev # pair
    /\ count' = [count EXCEPT !.turns = @ + 1]
    /\ dev' = pair /\ memory' = IF reach THEN pair ELSE memory
    /\ ops' = Unsure /\ quiet' = FALSE /\ fresh' = FALSE
    /\ UNCHANGED <<shape, reach, cell, answer>>

Plug ==
    /\ reach' = ~reach /\ memory' = IF reach THEN memory ELSE dev
    /\ UNCHANGED <<shape, dev, cell, ops, answer, count, quiet, fresh>>

\* The answer carries the temperature in either unit, with or without saying so;
\* a number without a unit is in the unit of the device.
GoveeAnswers(unit) ==
    /\ answer = None
    /\ unit # "none" => ~IsMode /\ shape.fahrenheit
    /\ answer' = [pair |-> IF unit = "C" THEN <<fahrenheitToCelsius(memory[1]), memory[2]>> ELSE memory,
                  unit |-> unit, online |-> reach]
    /\ quiet' = TRUE
    /\ UNCHANGED <<shape, dev, reach, memory, cell, ops, count, fresh>>

\* targetReadingsToCelsius.
InFahrenheit(unit) == IF unit = "none" THEN shape.fahrenheit ELSE unit = "F"

ShownHalf(a, h) ==
    IF ~IsMode /\ h = 1 /\ InFahrenheit(a.unit) THEN fahrenheitToCelsius(a.pair[h]) ELSE a.pair[h]

\* Wrong: any number lands in the dropdown.
AnyNumber(h, v) == HasPoint(h)
\* mapCloudStateValues: a value its list does not carry is not written.
IsShowable(h, v) == HasPoint(h) /\ Carries(h, v)

\* Wrong: the remembered values of an unplugged device are written.
Believe(a) == TRUE
cloudReportsOnline(a) == a.online

writeCloudStateValues ==
    /\ answer # None /\ answer' = None
    /\ IF cloudReportsOnline(answer)
       THEN /\ cell' = [h \in Half |-> LET v == ShownHalf(answer, h) IN
                          IF IsShowable(h, v) THEN [val |-> v, ack |-> TRUE, by |-> "cloud"] ELSE cell[h]]
            /\ fresh' = quiet /\ ops' = IF quiet THEN ops ELSE Unsure
       ELSE UNCHANGED <<cell, fresh, ops>>
    /\ UNCHANGED <<shape, dev, reach, memory, count, quiet>>

-----------------------------------------------------------------------------
\* The degrees a command may carry.
Degrees == IF shape.inField THEN shape.lo..shape.hi ELSE Int

Pairs == IF IsMode THEN Modes \X Levels ELSE Degrees \X {0, 1}

\* At the device: any pair of a mode and a number, or the ends of the range.
Turns == IF IsMode THEN Pairs ELSE {shape.lo, shape.hi} \X {0, 1}

ApplianceInit ==
    /\ shape \in Shapes
    /\ dev \in IF IsMode THEN {<<shape.modes[1], LevelOf(shape.modes[1], None)>>} ELSE (shape.lo..shape.hi) \X {0}
    /\ reach = TRUE /\ memory = dev
    /\ cell = [h \in Half |-> [val |-> None, ack |-> FALSE, by |-> "none"]]
    /\ ops = <<>> /\ answer = None
    /\ count = [ops |-> 0, turns |-> 0]
    /\ quiet = FALSE /\ fresh = FALSE

ApplianceNext ==
    \/ \E h \in Half : \E v \in Written(h) : UserWrites(h, v)
    \/ \E i \in DOMAIN ops : SendCombined(i) \/ GoveeTakes(i) \/ GoveeRefuses(i) \/ Acknowledge(i)
    \/ \E pair \in Turns : Turn(pair)
    \/ Plug
    \/ \E unit \in {"none", "F", "C"} : GoveeAnswers(unit)
    \/ writeCloudStateValues

ApplianceSpec == ApplianceInit /\ [][ApplianceNext]_applianceVars

-----------------------------------------------------------------------------
ApplianceTypeOK ==
    /\ shape \in Shapes /\ reach \in BOOLEAN /\ quiet \in BOOLEAN /\ fresh \in BOOLEAN
    /\ dev \in Pairs /\ memory \in Pairs
    /\ \A h \in Half : /\ cell[h].ack \in BOOLEAN /\ cell[h].by \in {"none", "wish", "ack", "cloud"}
                       /\ cell[h].ack <=> cell[h].by \in {"ack", "cloud"}
    /\ Len(ops) <= shape.ops
    /\ \A i \in DOMAIN ops : ops[i].half \in Half /\ ops[i].at \in {"read", "queued", "taken"}
    /\ count.ops \in 0..shape.ops /\ count.turns \in 0..shape.turns

\* Every command the adapter sends is one the device declares: a mode of its
\* own list with a level of that mode, whatever the other half in the tree
\* belonged to, and a temperature inside the range of its "temperature" field.
\* Excepted is what the code does not look at when it sends: a temperature range that
\* stands anywhere else, and the range of a bare modeValue field (level 0 goes out).
SentIsDeclared ==
    \A i \in DOMAIN ops : ops[i].cmd # None =>
        LET m == ops[i].cmd[1]  v == ops[i].cmd[2] IN
        IF IsMode
        THEN /\ m \in Modes
             /\ \/ v \in ToSet(shape.list[m])
                \/ shape.list[m] = <<>> /\ v \in ToSet(shape.flat)
                \/ /\ shape.list[m] = <<>> /\ shape.flat = <<>>
                   /\ IF shape.range[m] # None THEN v \in shape.range[m][1]..shape.range[m][2]
                      ELSE v = shape.dflt[m]
        ELSE shape.inField => m \in shape.lo..shape.hi

\* Refuted: a slider that has a range sends what is inside it.  A bare modeValue range
\* becomes a slider (capability-mapper.ts:1069-1083), but the command of any write is
\* built from the options alone and carries level 0 (:962-978); a target temperature has
\* its range from wherever it stands (:1140-1188), but is clamped to a field called
\* "temperature" only (state-change-router.ts:259, 268-270).
SlidersKeepTheirRange ==
    \A i \in DOMAIN ops : ops[i].cmd # None =>
        IF IsMode THEN shape.bare # None => ops[i].cmd[2] \in shape.bare[1]..shape.bare[2]
        ELSE ops[i].cmd[1] \in shape.lo..shape.hi

\* The entry the user picked is the one that goes out: a mode as chosen, and a
\* level of the dropdown under the mode it is a level of.
WrittenIsSent ==
    \A i \in DOMAIN ops : ops[i].cmd # None =>
        LET o == ops[i] IN
        /\ IsMode /\ o.half = 1 => o.cmd[1] = o.val
        /\ IsMode /\ o.half = 2 /\ shape.named /\ ~HasRange
             /\ (\E m \in Modes : \A n \in Modes : o.val \in ToSet(shape.list[n]) <=> n = m)
             /\ (\A m, n \in Modes :
                    m # n => ToSet(shape.list[m]) \cap ToSet(shape.list[n]) = {})
             /\ (\A m \in Modes : ToSet(shape.list[m]) \cap ToSet(shape.flat) = {})
           => o.cmd[2] = o.val /\ o.val \in ToSet(shape.list[o.cmd[1]])

\* What an answer put into a dropdown, the dropdown carries.
OnlyListedShown ==
    \A h \in Half : cell[h].by = "cloud" /\ ListOfPoint(h) # None => cell[h].val \in ListOfPoint(h)

\* The datapoint of the level can show v.
LevelIsShown(v) == HasPoint(2) /\ Carries(2, v)

\* When an answer was written and nothing moved since it was given, the tree
\* shows the device: not what Govee remembered of an unplugged one, a level as far as its
\* dropdown carries it, and the
\* temperature in the unit of the datapoint, whatever unit the answer used.
ReadShowsDevice ==
    fresh => /\ IsMode /\ LevelIsShown(dev[2]) => cell[2].val = dev[2]
             /\ IsMode => cell[1].val = dev[1]
             /\ ~IsMode => cell[1].val = (IF shape.fahrenheit THEN RoundUp(50 * (dev[1] - 32), 9) ELSE dev[1])

\* Switching auto stop sends the temperature along, read back from the tree: it
\* comes out as the degree the heater already holds, however often.
NoDrift ==
    \A i \in DOMAIN ops : ~IsMode /\ ops[i].half = 2 /\ ops[i].at = "queued" /\ ops[i].sure
                            => ops[i].cmd[1] = dev[1]

\* A command to an appliance is one its model declares, and the one that was
\* written.
CommandsFit ==
  /\ SentIsDeclared
  /\ WrittenIsSent

\* A read shows the device's own mode and level, and what it shows can be sent
\* back unchanged.
ReadsFit ==
  /\ OnlyListedShown
  /\ ReadShowsDevice
  /\ NoDrift

\* An appliance is commanded within what it declares, and shown as it is.
PairsFit ==
  /\ ApplianceTypeOK
  /\ CommandsFit
  /\ ReadsFit
=============================================================================
