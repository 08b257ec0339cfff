----------------------------- MODULE CoapCodec -----------------------------
(***************************************************************************)
(* The number formats of a CoAP datagram: the header of an option          *)
(* (CoapPDU::insertOption, getOptionDelta, getOptionValueLength of         *)
(* C_Cpp/cdemo/coap/mbtk_coap.cpp) and the value of a Block option         *)
(* (mbtk_coap_option_add of mbtk_coap_base.c, coapGetRecvOptionBlock2 of   *)
(* mbtk_coap_api.cpp).  Shifts and masks are written as \div and %.        *)
(***************************************************************************)
EXTENDS Integers, Sequences

Uint8  == 0 .. 255
Uint16 == {n \in Nat : n < 65536}

(* The byte at an offset.  The receive buffer is cleared before each        *)
(* datagram, so that a read behind the datagram gives 0.                    *)
At(b, i) == IF i < Len(b) THEN b[i + 1] ELSE 0

(* endian_load16 and endian_store16: network byte order.                    *)
Load16(b, i) == At(b, i) * 256 + At(b, i + 1)
Store16(n)   == <<n \div 256, n % 256>>

-----------------------------------------------------------------------------
(* computeExtraBytes                                                        *)
ExtraBytes(n) == IF n < 13 THEN 0 ELSE IF n < 269 THEN 1 ELSE 2

(* Mutant: the limit of the one byte form.                                  *)
NibbleTo268(n) == IF n < 13 THEN n ELSE IF n < 268 THEN 13 ELSE 14

(* The nibble of a delta or a length, and the bytes that extend it.         *)
Nibble(n) == IF n < 13 THEN n ELSE IF n < 269 THEN 13 ELSE 14
Ext(n)    == IF n < 13 THEN << >> ELSE IF n < 269 THEN <<n - 13>> ELSE Store16(n - 269)

Header(delta, len) == <<Nibble(delta) * 16 + Nibble(len)>> \o Ext(delta) \o Ext(len)

(* The value of a nibble whose extension is at offset i.                    *)
Extended(b, nibble, i) ==
  IF nibble < 13 THEN nibble
  ELSE IF nibble = 13 THEN At(b, i) + 13
  ELSE (Load16(b, i) + 269) % 65536

(* getOptionDelta; a nibble of 15 only occurs in the payload marker.        *)
OptionDelta(b, i) ==
  LET nibble == At(b, i) \div 16
  IN IF nibble = 15 THEN 15 ELSE Extended(b, nibble, i + 1)

(* getOptionValueLength: its extension is behind that of the delta.         *)
DeltaBytes(nibble) == IF nibble = 13 THEN 1 ELSE IF nibble = 14 THEN 2 ELSE 0
OptionValueLength(b, i) ==
  Extended(b, At(b, i) % 16, i + 1 + DeltaBytes(At(b, i) \div 16))

-----------------------------------------------------------------------------
(* mbtk_coap_option_add for a Block option: number, more flag, size.        *)
BlockLow(n, more, szx) == (n % 16) * 16 + (more % 2) * 8 + (szx % 8)
BlockBytes(n, more, szx) ==
  IF n <= 15 THEN <<BlockLow(n, more, szx)>>
  ELSE IF n <= 4095 THEN <<(n \div 16) % 256, BlockLow(n, more, szx)>>
  ELSE <<(n \div 4096) % 256, (n \div 16) % 256, BlockLow(n, more, szx)>>

(* coapGetRecvOptionBlock2 for a value of one, two or three bytes.          *)
Block2(v) ==
  LET low == v[Len(v)] IN
  [size |-> low % 8, more |-> (low \div 8) % 2,
   number |-> IF Len(v) = 1 THEN low \div 16
              ELSE IF Len(v) = 2 THEN v[1] * 16 + (low \div 16)
              ELSE v[1] * 4096 + v[2] * 16 + (low \div 16)]
=============================================================================
