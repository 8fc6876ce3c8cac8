------------------------------ MODULE CLibrary ------------------------------
(***************************************************************************)
(* The memory and string functions of lib/libc (memory.c, string.c): what  *)
(* their loops compute, word by word, character by character, beside what  *)
(* their callers expect.  Memory is a function on addresses; a string is   *)
(* the sequence of its characters without the terminator, which At reads   *)
(* behind the last one.                                                    *)
(***************************************************************************)
EXTENDS Integers, Sequences, SequencesExt, FiniteSetsExt

CONSTANTS Word,      \* sizeof(size_t)
          MemSize,   \* bytes of the memory that is copied about
          MaxLen     \* of a string

VARIABLE call        \* the call looked at: [fn, s, t, n]

NUL == 0
Letters == {65, 97}  \* A, a
Beyond == -31        \* 0xE1, a letter beyond ASCII: a plain char is signed
Star == 42
Question == 63
NULL == 0            \* no position in a string

Strings(alphabet) == BoundedSeq(alphabet, MaxLen)

At(s, i) == IF i \in 1 .. Len(s) THEN s[i] ELSE NUL

(* The first place, not before `from', where a loop stops. *)
FirstAt(from, to, Stop(_)) == Min({i \in from .. to : Stop(i)} \cup {to + 1})

Ascending(n) == [i \in 1 .. n |-> i - 1]

-----------------------------------------------------------------------------
(* memory.c                                                                *)

(* One move of n bytes, all read before the first is written. *)
Block(mem, dest, src, n) ==
  [a \in DOMAIN mem |-> IF a \in dest .. dest + n - 1 THEN mem[a - dest + src] ELSE mem[a]]

memcpy(mem, dest, src, qty) ==
  LET words == FoldLeft(LAMBDA m, k : Block(m, dest + Word * k, src + Word * k, Word),
                        mem, Ascending(qty \div Word))
      done == qty - (qty % Word)
  IN  FoldLeft(LAMBDA m, k : Block(m, dest + done + k, src + done + k, 1),
               words, Ascending(qty % Word))

(* Mutant: always from the front. *)
memmoveForward(mem, dest, src, qty) == memcpy(mem, dest, src, qty)

(* Upwards from the front, downwards from the back. *)
memmove(mem, dest, src, qty) ==
  IF dest <= src THEN memcpy(mem, dest, src, qty)
  ELSE LET rest == qty % Word
           words == FoldLeft(LAMBDA m, k : Block(m, dest + qty - Word * (k + 1),
                                                 src + qty - Word * (k + 1), Word),
                             mem, Ascending(qty \div Word))
       IN  FoldLeft(LAMBDA m, k : Block(m, dest + rest - 1 - k, src + rest - 1 - k, 1),
                    words, Ascending(rest))

(* memset by words and odd bytes: the word is the byte, doubled until full. *)
memset(mem, dest, val, qty) ==
  LET vx == FoldLeft(LAMBDA w, i : w \o w, <<val>>,
                     Ascending(Cardinality({i \in 0 .. Word : 2 ^ (i + 1) <= Word})))
      done == qty - (qty % Word)
  IN  [a \in DOMAIN mem |-> IF a \in dest .. dest + done - 1 THEN vx[1 + ((a - dest) % Word)]
                            ELSE IF a \in dest + done .. dest + qty - 1 THEN val ELSE mem[a]]

(* Neighbouring bytes swapped, an odd one at the end not copied. *)
swab(s) == [i \in 1 .. 2 * (Len(s) \div 2) |-> IF i % 2 = 1 THEN s[i + 1] ELSE s[i - 1]]

memsum(s, n) == FoldLeft(LAMBDA sum, c : (sum + c) % 256, 0, SubSeq(s, 1, n))

(* Swaps the ends and moves both inwards. *)
memrev(s) ==
  FoldLeft(LAMBDA t, i : [t EXCEPT ![i + 1] = t[Len(s) - i], ![Len(s) - i] = t[i + 1]],
           s, Ascending(Len(s) \div 2))

Byte(c) == c % 256   \* a char as an unsigned one

memcmp(s, t, n) ==
  LET i == FirstAt(1, n, LAMBDA k : At(s, k) # At(t, k))
  IN  IF i > n THEN 0 ELSE Byte(At(s, i)) - Byte(At(t, i))

-----------------------------------------------------------------------------
(* string.c                                                                *)

strlen(s) == FirstAt(1, MaxLen, LAMBDA k : At(s, k) = NUL) - 1

tolower(c) == IF c \in 65 .. 90 THEN c + 97 - 65 ELSE c

strcmp(s, t) ==
  LET i == FirstAt(1, MaxLen, LAMBDA k : At(s, k) = NUL \/ At(s, k) # At(t, k))
  IN  At(s, i) - At(t, i)

(* Compares without regard to case, but returns the difference of the letters
   as they are. *)
stricmp(s, t) ==
  LET i == FirstAt(1, MaxLen, LAMBDA k : At(s, k) = NUL \/ tolower(At(s, k)) # tolower(At(t, k)))
  IN  At(s, i) - At(t, i)

(* One character is looked at even if n is 0. *)
strncmp(s, t, n) ==
  LET i == FirstAt(1, MaxLen, LAMBDA k : k >= n \/ At(s, k) = NUL \/ At(s, k) # At(t, k))
  IN  At(s, i) - At(t, i)

strnicmp(s, t, n) ==
  LET i == FirstAt(1, MaxLen,
                   LAMBDA k : k >= n \/ At(s, k) = NUL \/ tolower(At(s, k)) # tolower(At(t, k)))
  IN  At(s, i) - At(t, i)

(* The terminator can be looked for as well. *)
strchr(s, c) ==
  LET i == FirstAt(1, Len(s) + 1, LAMBDA k : At(s, k) = c)
  IN  IF i > Len(s) + 1 THEN NULL ELSE i

strrchr(s, c) ==
  LET found == {i \in 1 .. Len(s) + 1 : At(s, i) = c}
  IN  IF found = {} THEN NULL ELSE Max(found)

(* An empty s has no first position, whatever is looked for. *)
strstr(s, t) ==
  LET i == FirstAt(1, Len(s), LAMBDA k :
                     FirstAt(1, MaxLen, LAMBDA j : At(t, j) = NUL \/ At(s, k + j - 1) # At(t, j))
                       > Len(t))
  IN  IF i > Len(s) THEN NULL ELSE i

(* The characters strncpy writes from dest[0] on: the source, its terminator
   and, if the terminator did not use up the count, one more. *)
strncpy(s, n) ==
  IF Len(s) >= n THEN SubSeq(s, 1, n) ELSE s \o <<NUL, NUL>>

strcat(s, t) == s \o t

(* Padded, or cut, in front: the text ends up at the right. *)
strpadr(s, fl, c) ==
  LET paste == fl - Len(s)
  IN  IF paste > 0 THEN [i \in 1 .. paste |-> c] \o s
      ELSE [i \in 1 .. fl |-> s[i - paste]]

(* Masks of * and ?.  The first argument of the recursion is the position in
   the string, the second that in the mask. *)
strlike(s, mask) ==
  LET end == Len(mask) + 1
      like[i \in 1 .. Len(s) + 1, j \in 1 .. end] ==
        IF j = end THEN i = Len(s) + 1
        ELSE IF mask[j] = Star
        THEN LET next == FirstAt(j, Len(mask), LAMBDA k : mask[k] # Star)
             IN  next = end \/ \E k \in i .. Len(s) : like[k, next]
        ELSE /\ i <= Len(s)
             /\ mask[j] \in {s[i], Question}
             /\ like[i + 1, j + 1]
  IN  like[1, 1]

(* The tokens of s that calls of strtok return one after the other, until one
   returns NULL: that one starts at the last delimiter, and also when a token
   follows it that ends with the string. *)
strtok(s, delims) ==
  LET tokens[from \in 1 .. Len(s) + 2] ==
        LET first == FirstAt(from, Len(s), LAMBDA k : s[k] \notin delims)
            last == FirstAt(first, Len(s), LAMBDA k : s[k] \in delims)
        IN  IF last > Len(s) THEN <<>>
            ELSE <<SubSeq(s, first, last - 1)>> \o tokens[last + 1]
  IN  tokens[1]

-----------------------------------------------------------------------------
Idle == [fn |-> "none", s |-> <<>>, t |-> <<>>, n |-> 0]

Init == call = Idle

CallMemory ==
  /\ call = Idle
  /\ \E dest, src, qty \in 0 .. MemSize :
       /\ dest + qty <= MemSize /\ src + qty <= MemSize
       /\ call' = [fn |-> "memory", s |-> <<dest>>, t |-> <<src>>, n |-> qty]

CallCompare ==
  /\ call = Idle
  /\ call' \in [fn : {"compare"}, s : Strings(Letters \cup {Beyond}),
                t : Strings(Letters \cup {Beyond}), n : 1 .. MaxLen + 1]

CallMask ==
  /\ call = Idle
  /\ call' \in [fn : {"mask"}, s : Strings(Letters), t : Strings(Letters \cup {Star, Question}),
                n : {0}]

CallBuffer ==
  /\ call = Idle
  /\ call' \in [fn : {"buffer"}, s : Strings(Letters), t : {<<>>}, n : 1 .. MaxLen + 1]

Next == CallMemory \/ CallCompare \/ CallMask \/ CallBuffer

Spec == Init /\ [][Next]_call

-----------------------------------------------------------------------------
(* memmove moves as if through a buffer of its own, however the two ranges
   overlap and whatever word and odd bytes the count is made of; memcpy does
   when the ranges do not overlap, or dest is below. *)
MemoryRight ==
  call.fn = "memory" =>
    LET mem == [a \in 0 .. MemSize - 1 |-> a]
        dest == call.s[1]
        src == call.t[1]
    IN  /\ memmove(mem, dest, src, call.n) = Block(mem, dest, src, call.n)
        /\ (dest <= src \/ src + call.n <= dest) =>
             memcpy(mem, dest, src, call.n) = Block(mem, dest, src, call.n)
        /\ memset(mem, dest, MemSize, call.n) =
             [a \in DOMAIN mem |-> IF a \in dest .. dest + call.n - 1 THEN MemSize ELSE mem[a]]

(* Matching a mask: the string can be cut into one piece for each character of
   the mask, any piece for a star. *)
Matches(s, mask) ==
  \E cut \in [1 .. Len(mask) + 1 -> 0 .. Len(s)] :
    /\ cut[1] = 0 /\ cut[Len(mask) + 1] = Len(s)
    /\ \A j \in 1 .. Len(mask) :
         \/ mask[j] = Star /\ cut[j] <= cut[j + 1]
         \/ /\ cut[j + 1] = cut[j] + 1
            /\ mask[j] \in {s[cut[j + 1]], Question}

Bytes(s) == [i \in DOMAIN s |-> Byte(s[i])]
Lower(s) == [i \in DOMAIN s |-> tolower(s[i])]
First(s, n) == SubSeq(s, 1, Min({n, Len(s)}))
IsSign(x, y) == (x > 0 <=> y > 0) /\ (x = 0 <=> y = 0)

(* The comparisons agree with one another and with equality, memcmp orders as
   they do once the characters are taken as bytes, the searches find the first
   or last place, a mask matches what it should, and padding keeps the text at
   the right.  Not claimed, as the code does otherwise: one order of memcmp and
   strcmp for letters beyond ASCII, which are negative to strcmp; strncmp of no
   characters, strstr in an empty string, an order for stricmp, and that
   strnicmp takes the n-th characters as equal whatever their case. *)
StringsRight ==
  LET s == call.s
      t == call.t
      n == call.n
      places == {i \in 1 .. Len(s) : i + Len(t) - 1 <= Len(s) /\ SubSeq(s, i, i + Len(t) - 1) = t}
  IN
  /\ call.fn = "compare" =>
       /\ strcmp(s, t) = 0 <=> s = t
       /\ IsSign(strcmp(s, t), -strcmp(t, s))
       /\ stricmp(s, t) = 0 <=> Lower(s) = Lower(t)
       /\ IsSign(strncmp(s, t, n), strcmp(First(s, n), First(t, n)))
       /\ strnicmp(s, t, n) = 0 => Lower(First(s, n)) = Lower(First(t, n))
       /\ n <= Len(s) /\ n <= Len(t) =>
            /\ memcmp(s, t, n) = 0 <=> strncmp(s, t, n) = 0
            /\ IsSign(memcmp(s, t, n), strncmp(Bytes(s), Bytes(t), n))
       /\ s # <<>> => strstr(s, t) = IF places = {} THEN NULL ELSE Min(places)
       /\ strlen(strcat(s, <<>>)) = Len(s)
  /\ call.fn = "mask" => (strlike(s, t) <=> Matches(s, t))
  /\ call.fn = "buffer" =>
       /\ memrev(s) = Reverse(s)
       /\ IsPrefix(swab(swab(s)), s)
       /\ memsum(swab(s \o s), 2 * Len(s)) = memsum(s \o s, 2 * Len(s))
       /\ \A c \in Letters :
            /\ strchr(s, c) = NULL <=> c \notin ToSet(s)
            /\ strchr(s, c) <= strrchr(s, c)
            /\ strrchr(s, c) = NULL \/ strchr(memrev(s), c) = Len(s) + 1 - strrchr(s, c)
       /\ strchr(s, NUL) = Len(s) + 1
       /\ Len(strpadr(s, n, Star)) = n
       /\ \/ IsSuffix(s, strpadr(s, n, Star))
          \/ IsSuffix(strpadr(s, n, Star), s)
       /\ n # Len(s) + 1 => Len(strncpy(s, n)) <= n
       /\ LET tokens == strtok(s \o <<97>>, {97})
          IN  FlattenSeq(tokens) = SelectSeq(s, LAMBDA c : c # 97)

=============================================================================
