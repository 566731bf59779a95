---------------------------- MODULE FunctionCodes ----------------------------
(***************************************************************************)
(* The function codes, on both sides of the link: the request each method  *)
(* of `ModbusMaster` builds and the pre-checks it sets for the response    *)
(* (master.rs), and the checks each handler of `ModbusSlave` makes before  *)
(* it asks its model (slave.rs), with the arithmetic of u8 and u16 both    *)
(* use.  The profile is a parameter: a debug build panics where a release  *)
(* build wraps.                                                            *)
(*                                                                         *)
(* A request is its numbers and its payload; `size` is the length of       *)
(* adu.data.  A value is one bit: a coil, or one bit of a register, since  *)
(* no operation mixes the bits of a register.                              *)
(***************************************************************************)
EXTENDS Integers, Sequences

CONSTANTS
  Word,          \* the values of a u16 (65536 in the code)
  Byte,          \* the values of a u8 (256)
  PerByte,       \* coils packed in a byte (8)
  ReadBits,      \* the most coils a request reads (0x7d0) ...
  ReadRegs,      \* ... registers (0x7d)
  WriteBits,     \* the most coils a request writes (0x7b0) ...
  WriteRegs,     \* ... registers with FC16 (0x7b)
  ExchangeRegs   \* ... registers with FC23 (0x79)

ASSUME CodesAssumption ==
  /\ {Word, Byte, PerByte, ReadBits, ReadRegs, WriteBits, WriteRegs, ExchangeRegs} \subseteq Nat \ {0}
  /\ ReadBits + PerByte - 1 < Word /\ ReadBits <= PerByte * (Byte - 1)
  /\ 2 * ReadRegs < Byte /\ 2 * WriteRegs < Byte /\ 2 * ExchangeRegs < Byte /\ Byte <= Word

Custom == 100    \* any function code that is not a standard one
BlockReads == {1, 2, 3, 4, 23}
BlockWrites == {15, 16, 23}
Errors == {"IllegalFunction", "IllegalDataValue", "IllegalDataAddress", "ServerDeviceFailure"}

U16(x) == x % Word
U8(x) == x % Byte

\* (length + 7) / 8 and length * 2, in u16.
BytesOfBits(n) == U16(n + PerByte - 1) \div PerByte
BytesOfRegs(n) == U16(2 * n)

\* The same of the length of a slice: usize, which does not overflow.
CeilBytes(k) == (k + PerByte - 1) \div PerByte

-----------------------------------------------------------------------------
(* The master: requests and pre-checks *)

\* What a method sends; whether computing it panics; the length of the response's
\* data it insists on, the byte count, and whether it compares the echo.
AnyLength == -1
OwnLength == -2     \* one more than the response's first byte says

Pdu(fc, c, wn, count, size) ==
  [fc |-> fc, unit |-> c.unit, at |-> c.at, n |-> c.n, wat |-> c.wat, wn |-> wn,
   count |-> count, size |-> size, vals |-> c.vals]

Method(pdu, panics, need, head, echo) ==
  [pdu |-> pdu, panics |-> panics, need |-> need, head |-> head, echo |-> echo]

Read(fc, c, sum, bytes, debug) ==
  Method(Pdu(fc, c, 0, 0, 4), debug /\ sum >= Word, 1 + bytes, bytes, FALSE)

ReadCoils(c, debug) == Read(1, c, c.n + PerByte - 1, BytesOfBits(c.n), debug)
ReadDiscreteInputs(c, debug) == Read(2, c, c.n + PerByte - 1, BytesOfBits(c.n), debug)
ReadHoldingRegisters(c, debug) == Read(3, c, 2 * c.n, BytesOfRegs(c.n), debug)
ReadInputRegisters(c, debug) == Read(4, c, 2 * c.n, BytesOfRegs(c.n), debug)

WriteSingleCoil(c) == Method(Pdu(5, c, 0, 0, 4), FALSE, 4, AnyLength, TRUE)
WriteSingleRegister(c) == Method(Pdu(6, c, 0, 0, 4), FALSE, 4, AnyLength, TRUE)

\* The byte count is truncated to u8; the copy runs past the buffer if that matters.
WriteBlock(fc, c, header, bytes) ==
  Method(Pdu(fc, c, U16(Len(c.vals)), U8(bytes), header + U8(bytes)),
         bytes > U8(bytes), 4, AnyLength, TRUE)

WriteMultipleCoils(c) == WriteBlock(15, c, 5, CeilBytes(Len(c.vals)))
WriteMultipleRegisters(c) == WriteBlock(16, c, 5, 2 * Len(c.vals))

ReportServerId(c) == Method(Pdu(17, c, 0, 0, 0), FALSE, OwnLength, AnyLength, FALSE)
MaskWriteRegister(c) == Method(Pdu(22, c, 0, 0, 6), FALSE, 6, AnyLength, TRUE)

ReadAndWriteMultipleRegisters(c, debug) ==
  LET w == WriteBlock(23, c, 9, 2 * Len(c.vals)) IN
  Method(w.pdu, w.panics \/ (debug /\ 2 * c.n >= Word),
         1 + BytesOfRegs(c.n), BytesOfRegs(c.n), FALSE)

SendCustomFc(c) == Method(Pdu(Custom, c, 0, 0, c.n), FALSE, AnyLength, AnyLength, FALSE)

MethodOf(c, debug) ==
  CASE c.fc = 1 -> ReadCoils(c, debug)
    [] c.fc = 2 -> ReadDiscreteInputs(c, debug)
    [] c.fc = 3 -> ReadHoldingRegisters(c, debug)
    [] c.fc = 4 -> ReadInputRegisters(c, debug)
    [] c.fc = 5 -> WriteSingleCoil(c)
    [] c.fc = 6 -> WriteSingleRegister(c)
    [] c.fc = 15 -> WriteMultipleCoils(c)
    [] c.fc = 16 -> WriteMultipleRegisters(c)
    [] c.fc = 17 -> ReportServerId(c)
    [] c.fc = 22 -> MaskWriteRegister(c)
    [] c.fc = 23 -> ReadAndWriteMultipleRegisters(c, debug)
    [] OTHER -> SendCustomFc(c)

\* A response: err is "none" or the exception (whose function code has bit 7 set),
\* count its first byte, size the length of its data.
Response(r, err, count, size, vals) ==
  [unit |-> r.unit, fc |-> r.fc, err |-> err, wat |-> r.wat, wn |-> r.wn,
   count |-> count, size |-> size, vals |-> vals]

\* check_length and its kin, as run_pre_checks evaluates them.
CheckLength(m, p) ==
  LET need == IF m.need = OwnLength THEN 1 + p.count ELSE m.need IN
  IF m.need = AnyLength THEN "none"
  ELSE IF m.need = OwnLength /\ p.size = 0 THEN "InsufficientData"
  ELSE IF p.size < need THEN "InsufficientData"
  ELSE IF p.size > need THEN "InvalidResponse"
  ELSE "none"

CheckUnitFc(m, p) == p.err = "none" /\ p.unit = m.pdu.unit /\ p.fc = m.pdu.fc
CheckByteCount(m, p) == m.head # AnyLength => p.size > 0 /\ p.count = m.head
CheckEcho(m, p) ==
  m.echo => p.wat = m.pdu.wat /\ p.wn = m.pdu.wn /\ (m.pdu.fc \in {5, 6, 22} => p.vals = m.pdu.vals)

\* parse_coils and parse_registers index the data with the length that was asked for;
\* report_server_id with the one its caller gave it.
ParsePanics(m, p) ==
  \/ m.pdu.fc \in {1, 2} /\ p.size < 1 + BytesOfBits(m.pdu.n)
  \/ m.pdu.fc \in {3, 4, 23} /\ p.size < 1 + 2 * m.pdu.n

Outcome(m, p) ==
  IF ~CheckUnitFc(m, p) THEN "InvalidResponse"
  ELSE IF CheckLength(m, p) # "none" THEN CheckLength(m, p)
  ELSE IF ~CheckByteCount(m, p) \/ ~CheckEcho(m, p) THEN "InvalidResponse"
  ELSE IF m.pdu.fc = 17 /\ p.size < 2 + m.pdu.n THEN "InvalidResponse"
  ELSE IF ParsePanics(m, p) THEN "panic"
  ELSE "ok"

-----------------------------------------------------------------------------
(* The slave: the checks of the handlers *)

CheckRange(as, ranges) ==
  ranges = {} \/ \E g \in ranges : \A a \in as : g[1] <= a /\ a <= g[2]

\* Fault: the first address of the block is checked alone.
VerdictOfFirst(shape, value, first, ends, ranges, debug) ==
  IF ~shape THEN "ignore"
  ELSE IF ~value THEN "IllegalDataValue"
  ELSE IF ~CheckRange({U16(first)}, ranges) THEN "IllegalDataAddress"
  ELSE "run"

\* A request of the wrong shape is ignored; `address + length` is computed in u16.
Verdict(shape, value, first, ends, ranges, debug) ==
  IF ~shape THEN "ignore"
  ELSE IF ~value THEN "IllegalDataValue"
  ELSE IF debug /\ \E e \in ends : e >= Word THEN "panic"
  ELSE IF ~CheckRange({first} \cup {U16(e) : e \in ends}, ranges) THEN "IllegalDataAddress"
  ELSE "run"

HandleRead(r, limit, ranges, debug) ==
  Verdict(r.size = 4, r.n \in 1 .. limit, r.at, {r.at + r.n}, ranges, debug)

HandleFc1(r, g, debug) == HandleRead(r, ReadBits, g.coils, debug)
HandleFc2(r, g, debug) == HandleRead(r, ReadBits, g.discrete_inputs, debug)
HandleFc3(r, g, debug) == HandleRead(r, ReadRegs, g.holding_registers, debug)
HandleFc4(r, g, debug) == HandleRead(r, ReadRegs, g.input_registers, debug)
HandleFc5(r, g, debug) == Verdict(r.size = 4, r.vals[1] \in {0, 1}, r.wat, {}, g.coils, debug)
HandleFc6(r, g, debug) == Verdict(r.size = 4, TRUE, r.wat, {}, g.holding_registers, debug)

\* The payload is as long as its byte count says, and not empty.
Whole(r, header) == r.count > 0 /\ r.size = header + r.count

HandleFc15(r, g, debug) ==
  Verdict(Whole(r, 5), r.wn \in 1 .. WriteBits /\ r.count = BytesOfBits(r.wn),
          r.wat, {r.wat + r.wn}, g.coils, debug)
HandleFc16(r, g, debug) ==
  Verdict(Whole(r, 5), r.wn \in 1 .. WriteRegs /\ r.count = BytesOfRegs(r.wn),
          r.wat, {r.wat + r.wn}, g.holding_registers, debug)

HandleFc17(r, g, debug) == IF r.size = 0 THEN "run" ELSE "ignore"
HandleFc22(r, g, debug) == Verdict(r.size = 6, TRUE, r.wat, {}, g.holding_registers, debug)

\* One range must hold both blocks.
HandleFc23(r, g, debug) ==
  Verdict(Whole(r, 9),
          r.n \in 1 .. ReadRegs /\ r.wn \in 1 .. ExchangeRegs /\ r.count = BytesOfRegs(r.wn),
          r.at, {r.at + r.n, r.wat, r.wat + r.wn}, g.holding_registers, debug)

HandlerOf(r, g, debug) ==
  CASE r.fc = 1 -> HandleFc1(r, g, debug)
    [] r.fc = 2 -> HandleFc2(r, g, debug)
    [] r.fc = 3 -> HandleFc3(r, g, debug)
    [] r.fc = 4 -> HandleFc4(r, g, debug)
    [] r.fc = 5 -> HandleFc5(r, g, debug)
    [] r.fc = 6 -> HandleFc6(r, g, debug)
    [] r.fc = 15 -> HandleFc15(r, g, debug)
    [] r.fc = 16 -> HandleFc16(r, g, debug)
    [] r.fc = 17 -> HandleFc17(r, g, debug)
    [] r.fc = 22 -> HandleFc22(r, g, debug)
    [] r.fc = 23 -> HandleFc23(r, g, debug)
    [] OTHER -> "custom"

\* The table each function code works on.
Space(fc) ==
  CASE fc \in {1, 5, 15} -> "coils"
    [] fc = 2 -> "discrete_inputs"
    [] fc = 4 -> "input_registers"
    [] OTHER -> "holding_registers"

\* Fault: the bytes are not rounded up.
PackCoilsDown(r, vals) ==
  Response(r, "none", U8(r.n \div PerByte), 1 + CeilBytes(Len(vals)), vals)

\* pack_coils and pack_registers: the byte count comes from the length asked for, the
\* payload from what the model returned.
PackCoils(r, vals) ==
  Response(r, "none", U8(BytesOfBits(r.n)), 1 + CeilBytes(Len(vals)), vals)
PackRegisters(r, vals) ==
  Response(r, "none", U8(BytesOfRegs(r.n)), 1 + 2 * Len(vals), vals)

Exception(r, err) == Response(r, err, 0, 1, <<>>)

-----------------------------------------------------------------------------
(* The length of the RTU frame that carries a PDU *)

\* encode: unit, function code and CRC around the data.
FrameLength(p) == 4 + p.size

\* Fault: the byte count itself is not counted.
PredictResponseShort(p) ==
  IF p.err # "none" THEN 5
  ELSE IF p.fc \in {5, 6, 15, 16} THEN 8
  ELSE IF p.fc = 22 THEN 10
  ELSE 4 + p.count

\* predict_rtu_frame_length: what the receiver expects it to be, from its first bytes.
PredictRequest(r) ==
  CASE r.fc \in 1 .. 6 -> 8
    [] r.fc = 17 -> 4
    [] r.fc = 22 -> 10
    [] r.fc \in {15, 16} -> 9 + r.count
    [] r.fc = 23 -> 13 + r.count

PredictResponse(p) ==
  IF p.err # "none" THEN 5
  ELSE IF p.fc \in {5, 6, 15, 16} THEN 8
  ELSE IF p.fc = 22 THEN 10
  ELSE 5 + p.count
=============================================================================
