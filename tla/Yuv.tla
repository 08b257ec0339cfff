-------------------------------- MODULE Yuv --------------------------------
(***************************************************************************)
(* The picture converter C_Cpp/cdemo/demo/yuv_demo.c: it reads a YUV file, *)
(* takes it apart into planes, and writes it as four bmp files, one for    *)
(* each of the four layouts.  Sizes are small enough for the 32 bit        *)
(* products not to wrap.  A bmp file is its sizes and its pixels: the      *)
(* header's other bytes are fixed.                                         *)
(***************************************************************************)
EXTENDS Integers, Sequences, FiniteSets

CONSTANTS
  Widths, Heights,   (* arguments, 0 (refused) included                      *)
  Factors,           (* the contents of a file: byte k is factor * k % 256   *)
  MaxExtra,          (* bytes a file may be too long or too short            *)
  ShortWrites        (* pixels that get into a bmp file whose writing fails  *)

ASSUME YuvAssumption ==
  Widths \subseteq Nat /\ Heights \subseteq Nat /\ Factors \subseteq Nat /\ MaxExtra \in Nat
  /\ ShortWrites \subseteq Nat

I420 == 0
YU12 == 1
NV12 == 2
NV21 == 3
Types == {I420, YU12, NV12, NV21}

VARIABLES
  at,       (* the next step of main                                          *)
  args,     (* type, width and height                                         *)
  file,     (* the file: its bytes, counted from 0, and whether it is open    *)
  got,      (* read_count                                                     *)
  heap,     (* the buffers that are allocated                                 *)
  planes,   (* y_data, u_data and v_data: the bytes that were written         *)
  rgb,      (* rgb_data: one triple for each pixel                            *)
  converted,  (* pictures converted                                           *)
  bmps,     (* the files written, in order                                    *)
  reads     (* the offsets of the file's data that were read                  *)

yuvVars == <<at, args, file, got, heap, planes, rgb, converted, bmps, reads>>

Len420(w, h) == (w * h * 3) \div 2
NoPlanes     == [y |-> <<>>, u |-> <<>>, v |-> <<>>]
Half(n)      == n \div 2

YuvInit ==
  /\ at = "start" /\ got = 0 /\ heap = {} /\ planes = NoPlanes /\ rgb = <<>>
  /\ converted = 0 /\ bmps = <<>> /\ reads = {}
  /\ args \in [type : Types \cup {4}, width : Widths, height : Heights]
  /\ \E f \in Factors, extra \in -MaxExtra .. MaxExtra :
       LET len == Len420(args.width, args.height) + extra IN
       file = [len |-> IF len < 0 THEN 0 ELSE len, factor |-> f, open |-> FALSE]

(* The byte at offset k of yuv_data.                                        *)
Byte(k) == (file.factor * k) % 256

(* yuv_lenght_check                                                         *)
LengthCheck == args.type \in Types /\ file.len = Len420(args.width, args.height)

(* A return before anything was acquired.                                   *)
Gives == at' = "done" /\ UNCHANGED <<args, file, got, heap, planes, rgb, converted, bmps, reads>>

(* goto exit_free, or the end: everything that was acquired is given back.  *)
ExitFree == at' = "done" /\ heap' = {} /\ file' = [file EXCEPT !.open = FALSE]

(* The sizes are checked before the file is opened.                         *)
OpenFile ==
  /\ at = "start"
  /\ \/ Gives
     \/ /\ args.width > 0 /\ args.height > 0
        /\ at' = "opened" /\ file' = [file EXCEPT !.open = TRUE]
        /\ UNCHANGED <<args, got, heap, planes, rgb, converted, bmps, reads>>

(* fseek, ftell, the length check and the four allocations.                 *)
Prepare ==
  /\ at = "opened"
  /\ \/ ExitFree
     \/ LengthCheck /\ at' = "reading" /\ heap' = {"yuv", "y", "u", "v"} /\ UNCHANGED file
  /\ UNCHANGED <<args, got, planes, rgb, converted, bmps, reads>>

(* One fread of n bytes; nothing more comes after an error.                 *)
ReadFile(n) ==
  /\ at = "reading" /\ got < file.len /\ n <= file.len - got
  /\ \/ n > 0 /\ got' = got + n /\ UNCHANGED <<at, heap, file>>
     \/ n = 0 /\ ExitFree /\ UNCHANGED got
  /\ UNCHANGED <<args, planes, rgb, converted, bmps, reads>>

-----------------------------------------------------------------------------
(***************************************************************************)
(* yuv_data_parse.  In the interleaved layouts one index goes through both *)
(* planes, so that each plane has a byte in every second place only.  A    *)
(* plane is a set of pairs: a place and the offset of the byte in it.      *)
(***************************************************************************)
Copied(from, n) == {<<i, from + i>> : i \in 0 .. n - 1}
Woven(from, n, odd) == {<<i, from + i>> : i \in {k \in 0 .. n : k % 2 = odd /\ k - odd < n}}

PlanesOf(t, s) ==
  LET first  == Copied(s, s \div 4)
      second == Copied((s * 5) \div 4, s \div 4)
      even   == Woven(s, Half(s), 0)
      odd    == Woven(s, Half(s), 1)
  IN [y |-> Copied(0, s),
      u |-> IF t = I420 THEN first ELSE IF t = YU12 THEN second ELSE IF t = NV12 THEN even ELSE odd,
      v |-> IF t = I420 THEN second ELSE IF t = YU12 THEN first ELSE IF t = NV12 THEN odd ELSE even]

(* The malloc of rgb_data is not checked.                                    *)
Parse ==
  /\ at = "reading" /\ got = file.len
  /\ planes' = PlanesOf(args.type, args.width * args.height)
  /\ reads' = {p[2] : p \in planes'.y \cup planes'.u \cup planes'.v}
  /\ heap' \in {heap, heap \cup {"rgb"}} /\ at' = "converting"
  /\ UNCHANGED <<args, file, got, rgb, converted, bmps>>

-----------------------------------------------------------------------------
(***************************************************************************)
(* yuv420_to_rgb                                                           *)
(***************************************************************************)
Clamp(n) == IF n < 0 THEN 0 ELSE IF n > 262143 THEN 262143 ELSE n

(* ((r << 6) & 0xff0000) >> 16 and its like: bits 10 to 17.                 *)
Channel(n) == (Clamp(n) \div 1024) % 256

Pixel(yb, ub, vb) ==
  LET y == IF yb < 16 THEN 0 ELSE 1192 * (yb - 16)
      u == ub - 128
      v == vb - 128
  IN <<Channel(y + 1634 * v), Channel(y - (833 * v + 400 * u)), Channel(y + 2066 * u)>>

Interleaved(t) == t \in {NV12, NV21}

(* Mutant: the chroma of planes taken to have rows as long as the luma's.   *)
RowStartFull(t, w, h, j) == w * h + Half(j) * w

(* The offset uvp at the start of row j.                                    *)
RowStart(t, w, h, j) == w * h + Half(j) * (IF Interleaved(t) THEN w ELSE Half(w))

(* The offsets of u and v when uvp is p; a second read comes after the      *)
(* first, or from the second plane.                                         *)
Pair(t, w, h, p) ==
  LET other == p + (IF Interleaved(t) THEN 1 ELSE (w * h) \div 4)
  IN IF t \in {I420, NV12} THEN [u |-> p, v |-> other] ELSE [u |-> other, v |-> p]

(* u and v are read in the even columns and kept for the next; p is uvp     *)
(* after column i.                                                          *)
Row(t, w, h, j) ==
  LET step == IF Interleaved(t) THEN 2 ELSE 1
      after[i \in Nat] ==
        IF i % 2 = 1 THEN after[i - 1]
        ELSE LET p == IF i = 0 THEN RowStart(t, w, h, j) ELSE after[i - 1].p
             IN [p |-> p + step, uv |-> Pair(t, w, h, p)]
  IN [i \in 0 .. w - 1 |-> [y |-> j * w + i, u |-> after[i].uv.u, v |-> after[i].uv.v]]

Sources(t, w, h) == [k \in 0 .. w * h - 1 |-> Row(t, w, h, k \div w)[k % w]]

(* pic_bmp_save: the header's sizes and the data in the order given.  The    *)
(* results of fwrite and fclose are not looked at: the file may end early.   *)
Bmp(w, h, data, n) == [width |-> w, height |-> h, data |-> data, pixels |-> n]

(* The loop of main: convert and save as layout converted, whatever the     *)
(* type given.  pic_bmp_save fails when its file cannot be opened.          *)
Convert ==
  /\ at = "converting" /\ converted < 4 /\ "rgb" \in heap
  /\ LET src == Sources(converted, args.width, args.height) IN
     /\ rgb' = [k \in DOMAIN src |-> Pixel(Byte(src[k].y), Byte(src[k].u), Byte(src[k].v))]
     /\ reads' = reads \cup UNION {{src[k].y, src[k].u, src[k].v} : k \in DOMAIN src}
  /\ \/ /\ \E n \in ShortWrites \cup {args.width * args.height} :
             n <= args.width * args.height /\ bmps' = Append(bmps, Bmp(args.width, args.height, rgb', n))
        /\ converted' = converted + 1 /\ UNCHANGED <<at, heap, file>>
     \/ ExitFree /\ UNCHANGED <<bmps, converted>>
  /\ UNCHANGED <<args, got, planes>>

(* Without rgb_data the first pixel is written through a null pointer.       *)
Crash ==
  /\ at = "converting" /\ "rgb" \notin heap
  /\ at' = "crashed"
  /\ UNCHANGED <<args, file, got, heap, planes, rgb, converted, bmps, reads>>

Finish ==
  /\ at = "converting" /\ converted = 4 /\ ExitFree
  /\ UNCHANGED <<args, got, planes, rgb, converted, bmps, reads>>

YuvNext == OpenFile \/ Prepare \/ (\E n \in 0 .. file.len : ReadFile(n)) \/ Parse \/ Convert \/ Crash \/ Finish

YuvSpec == YuvInit /\ [][YuvNext]_yuvVars

-----------------------------------------------------------------------------
Even(n) == n % 2 = 0

(* Picture n shows every pixel that got into its file with its own luma and *)
(* with the chroma of its block of two by two pixels, where layout n keeps  *)
(* it, and a channel is the exact value cut to a byte: the running offset uvp and the u and v    *)
(* kept from the column before never go out of step.  For even sizes: an    *)
(* odd width is accepted by yuv_lenght_check, and its rows drift.           *)
PicturesExact ==
  Even(args.width) /\ Even(args.height) =>
    \A n \in DOMAIN bmps, i \in 0 .. args.width - 1, j \in 0 .. args.height - 1 :
      LET s     == args.width * args.height
          block == Half(j) * Half(args.width) + Half(i)
          u     == <<s + block, s + (s \div 4) + block, s + 2 * block, s + 2 * block + 1>>[n]
          v     == <<s + (s \div 4) + block, s + block, s + 2 * block + 1, s + 2 * block>>[n]
          y     == 1192 * (IF Byte(j * args.width + i) < 16 THEN 0 ELSE Byte(j * args.width + i) - 16)
          near(c, exact) == IF exact < 0 THEN c = 0 ELSE IF exact >= 255 * 1024 THEN c = 255
                            ELSE c * 1024 <= exact /\ exact < (c + 1) * 1024
          p     == bmps[n].data[j * args.width + i]
      IN j * args.width + i < bmps[n].pixels =>
         /\ near(p[1], y + 1634 * (Byte(v) - 128))
         /\ near(p[2], y - 833 * (Byte(v) - 128) - 400 * (Byte(u) - 128))
         /\ near(p[3], y + 2066 * (Byte(u) - 128))

(* For even sizes nothing is read past the end of the file's data, and each *)
(* of its bytes is used.                                                    *)
ReadsTheFile ==
  Even(args.width) /\ Even(args.height) /\ reads # {} => reads = 0 .. file.len - 1

(* However main returns, the file is closed and no buffer stays allocated.  *)
NothingLeft == at = "done" => heap = {} /\ ~file.open

(* yuv_demo converts the whole file, of even width and height, into exact   *)
(* pictures, or fails, and gives everything back in either case; a picture  *)
(* whose writing failed is exact as far as it goes, and is not reported,    *)
(* and without memory for rgb_data the program crashes.                     *)
ConversionExact == PicturesExact /\ ReadsTheFile /\ NothingLeft
=============================================================================
