-------------------------------- MODULE Pin --------------------------------
(***************************************************************************)
(* The way of a PIN from a line of the command pipe to the speaker, in     *)
(* src/src/mass.c: its text is converted, tested, formatted and cut to fit *)
(* ap2_device_info.pin.  What is printed is [number, width].               *)
(***************************************************************************)
EXTENDS Numbers

CONSTANTS
    Base,       \* 10 in the code, where a PIN has 4 digits
    Digits,
    Texts       \* values of PIN=, see Numbers

VARIABLES
    item,       \* the text that is parsed
    ret,        \* of the last call in parse_mass_item
    prepared,   \* prepared->pin as it is printed, or NoNumber
    pin,        \* ap2_device_info.pin likewise
    pc          \* "convert", "check", "format", "set", "done" or "refused"
pinVars == <<item, ret, prepared, pin, pc>>

PinInit ==
    /\ item \in Texts /\ ret = 0
    /\ prepared = NoNumber /\ pin = NoNumber /\ pc = "convert"

\* The result of safe_atou32 is 0 or -1, and the number is left in the variable pin.
Convert ==
    /\ pc = "convert" /\ pc' = "check"
    /\ ret' = IF safe_atou32(item) = NoNumber THEN -1 ELSE 0
    /\ UNCHANGED <<item, prepared, pin>>

\* The test for four digits is made on ret.
CheckPin ==
    /\ pc = "check"
    /\ pc' = IF ret < 0 \/ ret > Base^Digits - 1 THEN "refused" ELSE "format"
    /\ UNCHANGED <<item, ret, prepared, pin>>

\* "%.4u" pads with zeros and does not cut.
Width(n) == CHOOSE w \in Digits..IntRange :
                n < Base^w /\ (w = Digits \/ n >= Base^(w - 1))

Format ==
    /\ pc = "format" /\ pc' = "set"
    /\ LET n == safe_atou32(item) IN
       prepared' = [number |-> n, width |-> Width(n)] /\ ret' = Width(n)
    /\ UNCHANGED <<item, pin>>

\* strncpy takes the leading digits.
SetPin ==
    /\ pc = "set" /\ pc' = "done"
    /\ pin' = [number |-> prepared.number \div Base^(prepared.width - Digits), width |-> Digits]
    /\ UNCHANGED <<item, ret, prepared>>

PinNext == Convert \/ CheckPin \/ Format \/ SetPin
PinSpec == PinInit /\ [][PinNext]_pinVars

\* src/src/mass.c:749, "PIN's limited to 4 digits": what is used to authorise the speaker
\* is the number that was sent, and a longer number is refused.
PinIsLimited == pc = "done" => pin.number = safe_atou32(item)
=============================================================================
