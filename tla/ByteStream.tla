----------------------------- MODULE ByteStream -----------------------------
(***************************************************************************)
(* utils::ByteStream as a reader: where it stands in its data, and what    *)
(* its checks let pass.  What the bytes say is left to the user.           *)
(***************************************************************************)
EXTENDS Integers

CONSTANT SizeMax      \* how many values a size_t has

Stream(size) == [size |-> size,
                 offset |-> 0,
                 failed |-> FALSE,     \* history: a read returned false
                 overshot |-> FALSE,   \* history: read_offset_ passed the end
                 overread |-> FALSE]   \* history: bytes behind the end were read

\* The sum is compared with the size.
MutFits(s, n) == s.offset + n <= s.size + 1

\* get_size() - read_offset_ is unsigned, and large once the offset is beyond the end.
Fits(s, n) == (s.size - s.offset) % SizeMax >= n

Moved(s, n) == [s EXCEPT !.offset = (@ + n) % SizeMax, !.overshot = @ \/ s.offset + n > s.size]

\* read_data(), read(): the destination keeps what it had if it fails.
ReadData(s, n) ==
    IF Fits(s, n)
    THEN [Moved(s, n) EXCEPT !.overread = @ \/ (n > 0 /\ s.offset + n > s.size),
                             !.overshot = s.overshot]
    ELSE [s EXCEPT !.failed = TRUE]

\* read(std::string&): the length is consumed although the text is cut.
ReadText(s, length) ==
    IF Fits(s, 2) THEN ReadData(ReadData(s, 2), length)
    ELSE [s EXCEPT !.failed = TRUE]

\* skip() does not look at the size.
Skip(s, n) == Moved(s, n)
=============================================================================
