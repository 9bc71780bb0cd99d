---------------------------- MODULE SnapshotFile ----------------------------
(***************************************************************************)
(* The snapshot file's algorithms (src/whp/snapshot_file.rs), each checked *)
(* against what it must compute for every input of a small size:           *)
(*   - the sparse RAM image: written without its all-zero chunks, read     *)
(*     back into zero-filled RAM slice by slice (GuestMemory::fill_image,  *)
(*     crates/whpsys/src/memory.rs), each slice checksummed on its own;    *)
(*   - the CRC of a whole from those of its parts (crc32_combine), with    *)
(*     polynomials over GF(2) as sets of bit positions;                    *)
(*   - the header: a flat JSON object, its strings escaped and parsed.     *)
(* A word stands for the bytes of the image, Width for the CRC's 32 bits.  *)
(***************************************************************************)
EXTENDS Integers, Sequences, FiniteSets

CONSTANTS Chunk, Slice, Run, \* SPARSE_CHUNK, fill_image's CHUNK, RUN (in chunks)
          MaxImage,          \* words in an image
          Width, Poly,       \* the CRC's width and reflected polynomial
          MaxBytes,          \* bytes on each side of a split
          MaxText            \* characters of a header string

SnapshotFileAssumption ==
    /\ {Chunk, Run, MaxImage, MaxBytes, MaxText} \subseteq Nat \ {0}
    /\ Slice \in Nat \ {0} /\ Slice % Chunk = 0
    /\ Width \in Nat /\ Width > 8 /\ Poly \subseteq 0..(Width - 1) /\ Width - 1 \in Poly

VARIABLE input
vars == <<input>>

Least(a, b) == IF a <= b THEN a ELSE b
DivUp(a, b) == (a + b - 1) \div b

---------------------------------------------------------------------------
\* Sparse RAM: the writer. Chunks are numbered from 0.
Chunks(len) == DivUp(len, Chunk)
ChunkLen(len, i) == Least(Chunk, len - i * Chunk)

\* Faulty: a last chunk that is not whole is left out.
StoredWholeOnly(image) ==
    {i \in 0..(Len(image) \div Chunk - 1) : \E k \in 1..Chunk : image[i * Chunk + k] # 0}

\* stored_chunks
Stored(image) ==
    {i \in 0..(Chunks(Len(image)) - 1) :
        \E k \in 1..ChunkLen(Len(image), i) : image[i * Chunk + k] # 0}

\* The end of the run of stored chunks from `first`, at most `cap` of them.
RunEnd(stored, first, cap) ==
    CHOOSE e \in first..(first + cap) :
        /\ \A j \in first..(e - 1) : j \in stored
        /\ e = first + cap \/ e \notin stored

\* write_ram_sparse
Payload(image) ==
    LET n == Chunks(Len(image))
        from[i \in 0..(n + Run)] ==
            IF i >= n THEN <<>>
            ELSE IF i \notin Stored(image) THEN from[i + 1]
            ELSE LET e == RunEnd(Stored(image), i, Run)
                 IN SubSeq(image, i * Chunk + 1, Least(e * Chunk, Len(image))) \o from[e]
    IN from[0]
RamSection(image) ==
    [image_len |-> Len(image), bitmap |-> Stored(image), payload |-> Payload(image)]

\* The reader: open's checks of the section, then load_ram_and_verify.
StoredBefore(sec, i) ==
    LET sum[j \in 0..i] == IF j = 0 THEN 0
                           ELSE sum[j - 1] + (IF j - 1 \in sec.bitmap
                                              THEN ChunkLen(sec.image_len, j - 1) ELSE 0)
    IN sum[i]
Valid(sec) ==
    /\ sec.bitmap \subseteq 0..(Chunks(sec.image_len) - 1)
    /\ StoredBefore(sec, Chunks(sec.image_len)) = Len(sec.payload)

\* fill_ram's closure: the runs of the slice [off, end) of RAM, read at their
\* place among the stored bytes; the words read, in order, are its checksum's.
FillSlice(sec, off, end) ==
    LET from[i \in 0..(DivUp(end, Chunk) + 1)] ==
            IF i * Chunk >= end THEN [ram |-> <<>>, read |-> <<>>]
            ELSE IF i \notin sec.bitmap
            THEN LET rest == from[i + 1]
                 IN [rest EXCEPT !.ram = [k \in 1..Least(Chunk, end - i * Chunk) |-> 0] \o @]
            ELSE LET cap == DivUp(end, Chunk) - i
                     e == RunEnd(sec.bitmap, i, cap)
                     got == SubSeq(sec.payload, StoredBefore(sec, i) + 1,
                                   StoredBefore(sec, i) + Least(e * Chunk, end) - i * Chunk)
                     rest == from[e]
                 IN [ram |-> got \o rest.ram, read |-> got \o rest.read]
    IN from[off \div Chunk]

\* fill_image: the slices of the first n words, each by some thread; their
\* results are put in image order.
FillRam(sec, n) ==
    LET from[s \in 0..DivUp(n, Slice)] ==
            IF s * Slice >= n THEN [ram |-> <<>>, read |-> <<>>]
            ELSE LET here == FillSlice(sec, s * Slice, Least((s + 1) * Slice, n))
                     rest == from[s + 1]
                 IN [ram |-> here.ram \o rest.ram, read |-> here.read \o rest.read]
    IN from[0]

\* load_ram_and_verify: what lands in RAM of `size` words, and the stored words
\* in the order they are checksummed, those past RAM's end last.
Load(sec, size) ==
    LET filled == FillRam(sec, Least(sec.image_len, size))
    IN [ram |-> filled.ram \o [k \in 1..(size - Len(filled.ram)) |-> 0],
        read |-> filled.read \o SubSeq(sec.payload, Len(filled.read) + 1, Len(sec.payload))]

---------------------------------------------------------------------------
\* CRC: bit 0 of a register is its x^(Width-1) (reflected).
Bits == 0..(Width - 1)
Xor(a, b) == (a \cup b) \ (a \cap b)
ShiftRight(a, n) == {b - n : b \in {c \in a : c >= n}}
TimesX(a) == IF 0 \in a THEN Xor(ShiftRight(a, 1), Poly) ELSE ShiftRight(a, 1)
TimesXn(a, n) == LET by[k \in 0..n] == IF k = 0 THEN a ELSE TimesX(by[k - 1]) IN by[n]

\* crc_table and crc32_table
CrcTable(i) == TimesXn(i, 8)
Crc32Update(crc, data) ==
    LET after[k \in 0..Len(data)] ==
            IF k = 0 THEN crc
            ELSE Xor(CrcTable(Xor(after[k - 1], data[k]) \cap 0..7), ShiftRight(after[k - 1], 8))
    IN after[Len(data)]
Crc32(data) == Xor(Crc32Update(Bits, data), Bits)

\* multmodp: from the highest bit of `a` down, until no lower one is set.
MultModP(a, b) ==
    LET sum[m \in 0..Width] ==
            IF m = 0 THEN {}
            ELSE Xor(sum[m - 1], IF Width - m \in a THEN TimesXn(b, m - 1) ELSE {})
    IN sum[Width]

\* Faulty: one shift, whatever the length.
X8nModPOnce(len) == IF len = 0 THEN {Width - 1} ELSE {Width - 9}

\* x8nmodp: x^(8 len), by squaring.
X8nModP(len) ==
    LET go[l \in 0..len] == [xk \in SUBSET Bits |-> [p \in SUBSET Bits |->
            IF l = 0 THEN p
            ELSE go[l \div 2][MultModP(xk, xk)][IF l % 2 = 1 THEN MultModP(xk, p) ELSE p]]]
    IN go[len][{Width - 9}][{Width - 1}]
Crc32Combine(a, b, len) == Xor(MultModP(X8nModP(len), a), b)

---------------------------------------------------------------------------
\* The header's strings: quote, backslash, newline and a control character are
\* escaped; ":" "," and "}" end other things and are not.
Chars == {"quote", "bs", "newline", "ctl", "colon", "comma", "close", "n", "x"}

\* Faulty: a backslash is not escaped.
EscapeForgetsBackslash(c) ==
    CASE c = "quote" -> <<"bs", "quote">> [] c = "newline" -> <<"bs", "n">>
      [] c = "ctl" -> <<"bs", "u", "hex">> [] OTHER -> <<c>>

EscapeJson(c) ==
    CASE c \in {"quote", "bs"} -> <<"bs", c>> [] c = "newline" -> <<"bs", "n">>
      [] c = "ctl" -> <<"bs", "u", "hex">> [] OTHER -> <<c>>
Quoted(s) ==
    LET body[k \in 0..Len(s)] == IF k = 0 THEN <<>> ELSE body[k - 1] \o EscapeJson(s[k])
    IN <<"quote">> \o body[Len(s)] \o <<"quote">>

\* JsonWriter: a string and a number.
WriteHeader(h) ==
    <<"open">> \o Quoted(h.key) \o <<"colon">> \o Quoted(h.str) \o <<"comma">>
    \o Quoted(<<"n", "u">>) \o <<"colon", h.num, "close">>

\* JsonReader::parse. parse_string from position i: the text and what follows.
Failed == [ok |-> FALSE, text |-> <<>>, next |-> 0]
ParseString(j, at) ==
    LET from[i \in at..(Len(j) + 3)] ==
            IF i > Len(j) THEN Failed
            ELSE IF j[i] = "quote" THEN [ok |-> TRUE, text |-> <<>>, next |-> i + 1]
            ELSE IF j[i] # "bs"
            THEN LET rest == from[i + 1] IN [rest EXCEPT !.text = <<j[i]>> \o @]
            ELSE IF i = Len(j) \/ j[i + 1] \notin {"quote", "bs", "n", "u"} THEN Failed
            ELSE LET rest == from[IF j[i + 1] = "u" THEN i + 3 ELSE i + 2]
                     c == CASE j[i + 1] = "n" -> "newline" [] j[i + 1] = "u" -> "ctl"
                            [] OTHER -> j[i + 1]
                 IN [rest EXCEPT !.text = <<c>> \o @]
    IN IF at > Len(j) \/ j[at] # "quote" THEN Failed ELSE from[at + 1]

\* A value that is no string runs to the next "," or "}".
ParseValue(j, at) ==
    IF at <= Len(j) /\ j[at] = "quote" THEN ParseString(j, at)
    ELSE LET end == CHOOSE e \in at..(Len(j) + 1) :
                       /\ e = Len(j) + 1 \/ j[e] \in {"comma", "close"}
                       /\ \A k \in at..(e - 1) : j[k] \notin {"comma", "close"}
         IN [ok |-> TRUE, text |-> SubSeq(j, at, end - 1), next |-> end]

\* The object's pairs, in order.
Parse(j) ==
    LET pair[i \in 1..(Len(j) + 3)] ==
            LET key == ParseString(j, i)
                val == ParseValue(j, key.next + 1)
            IN IF ~key.ok \/ key.next > Len(j) \/ j[key.next] # "colon" THEN <<"bad">>
               ELSE IF ~val.ok \/ val.next > Len(j) THEN <<"bad">>
               ELSE IF j[val.next] = "comma" THEN <<key.text, val.text>> \o pair[val.next + 1]
               ELSE IF j[val.next] = "close" THEN <<key.text, val.text>>
               ELSE <<"bad">>
    IN IF j[1] = "open" THEN pair[2] ELSE <<"bad">>

---------------------------------------------------------------------------
Texts(n) == UNION {[1..k -> Chars] : k \in 0..n}
Bytes == {{}, {0}, {7}, {1, 4, 6}}
ByteSeqs(n) == UNION {[1..k -> Bytes] : k \in 0..n}

TakeImage ==
    \E image \in UNION {[1..n -> {0, 1}] : n \in 1..MaxImage}, size \in 1..(MaxImage + 1) :
        input' = [kind |-> "ram", image |-> image, size |-> size]
TakeParts ==
    \E a, b \in ByteSeqs(MaxBytes) : input' = [kind |-> "crc", a |-> a, b |-> b]
TakeHeader ==
    \E key \in Texts(1), str \in Texts(MaxText) :
        input' = [kind |-> "header", key |-> key, str |-> str, num |-> "digits"]

Init == input = [kind |-> "none"]
Next == input.kind = "none" /\ (TakeImage \/ TakeParts \/ TakeHeader)
Spec == Init /\ [][Next]_vars

\* A RAM image comes back as it was saved, cut to or padded with zeros up to
\* the RAM there is, whatever chunks it has and wherever slices, runs and a
\* short last chunk fall; and the parallel slices checksum exactly the stored
\* bytes in file order.
ImageReturns ==
    input.kind = "ram" =>
        LET sec == RamSection(input.image)
            got == Load(sec, input.size)
        IN /\ Valid(sec)
           /\ got.ram = [k \in 1..input.size |->
                            IF k <= Len(input.image) THEN input.image[k] ELSE 0]
           /\ got.read = sec.payload

\* The CRC of two parts, combined, is the CRC of the whole; so one computed
\* from slices in parallel matches the one the writer computed byte by byte.
CombineIsWhole ==
    input.kind = "crc" =>
        Crc32Combine(Crc32(input.a), Crc32(input.b), Len(input.b)) = Crc32(input.a \o input.b)

\* "string-aware so paths with `:` `,` `\` round-trip": every header written is
\* parsed back to its keys and values.
HeaderReturns ==
    input.kind = "header" =>
        Parse(WriteHeader(input)) = <<input.key, input.str, <<"n", "u">>, <<input.num>>>>
=============================================================================
