----------------------------- MODULE LocalModel -----------------------------
(***************************************************************************)
(* The offline language model: otter-llm (the .otm loader, the byte-level  *)
(* BPE tokenizer, the chat template, what a forward pass asks of the       *)
(* model's tensors), otter-sample (which tokens a draw may return) and     *)
(* otter-local (the chat engine).  Weights and activations are left out; a *)
(* text is a sequence of characters, a token id counts from 0.             *)
(***************************************************************************)
EXTENDS Integers, Sequences, SequencesExt, FiniteSetsExt

CONSTANTS
    Alphabetic, Numeric, White,   \* classes of characters
    Utf8(_),                      \* the bytes of a character
    IsUtf8(_),                    \* which sequences of bytes core::str::from_utf8 takes
    BASE, W16, W32, W64,          \* values of a byte, bytes of u16, of u32 and f32, of u64 and usize
    HEADER_SIZE, ALIGN, BLOCK     \* bytes of the header, of an alignment unit, weights in a Q8_0 block

Bytes(text) == FlattenSeq([i \in DOMAIN text |-> Utf8(text[i])])
StartsWith(s, prefix) == Len(prefix) <= Len(s) /\ SubSeq(s, 1, Len(prefix)) = prefix
From(s, i) == SubSeq(s, i, Len(s))

-----------------------------------------------------------------------------
(* The tokenizer *)

IsPrintable(b) == b \in (33 .. 126) \cup (161 .. 172) \cup (174 .. 255)
ByteToUnicode == [b \in 0 .. 255 |-> IF IsPrintable(b) THEN b ELSE 256 + Cardinality({c \in 0 .. b - 1 : ~IsPrintable(c)})]
Mapped(bytes) == [i \in DOMAIN bytes |-> ByteToUnicode[bytes[i]]]

\* The tokenizer of a vocabulary, merges in order of rank and added tokens [id, content].
\* Of two equal entries or merges the later one counts; merges of unknown ids are skipped.
FromLoaderData(vocab, merges, added, isolate) ==
    LET names == [i \in DOMAIN vocab |-> Mapped(vocab[i])]
        known == {r \in DOMAIN merges : merges[r][1] < Len(vocab) /\ merges[r][2] < Len(vocab)}
        Key(r) == <<names[merges[r][1] + 1], names[merges[r][2] + 1]>>
        Longer(a, b) == Len(Bytes(added[a].content)) > Len(Bytes(added[b].content))
        order == SetToSortSeq(DOMAIN added, LAMBDA a, b : Longer(a, b) \/ (~Longer(b, a) /\ a < b))
    IN  [vocab |-> [n \in Range(names) |-> Max({i \in DOMAIN names : names[i] = n}) - 1],
         bytes |-> vocab,
         rank |-> [k \in {Key(r) : r \in known} |-> Max({r \in known : Key(r) = k}) - 1],
         added |-> [i \in DOMAIN added |-> added[order[i]]],
         isolate |-> isolate]

\* Every digit is a segment of its own when they are isolated.
AsciiDigit == 48 .. 57
SplitDigitSegments(text, isolate) ==
    LET Add(s, c) == IF c \in AsciiDigit \/ s = <<>> \/ Last(Last(s)) \in AsciiDigit THEN Append(s, <<c>>)
                     ELSE Append(Front(s), Append(Last(s), c))
    IN  IF isolate THEN FoldLeft(Add, <<>>, text) ELSE <<text>>

IsOther(c) == c \notin White \cup Alphabetic \cup Numeric
\* The characters an apostrophe takes with it: 's 't 'm 'd 're 've 'll.
MatchContraction(s) ==
    IF Len(s) < 2 \/ s[1] # 39 THEN 0
    ELSE IF s[2] \in {115, 116, 109, 100} THEN 2
    ELSE IF Len(s) > 2 /\ <<s[2], s[3]>> \in {<<114, 101>>, <<118, 101>>, <<108, 108>>} THEN 3 ELSE 0
RunLength(s, from, class) ==
    LET ends == {i \in from .. Len(s) : s[i] \notin class} IN (IF ends = {} THEN Len(s) + 1 ELSE Min(ends)) - from
MatchCategoryRun(s, class) ==
    LET lead == IF Len(s) > 1 /\ s[1] = 32 /\ s[2] \in class THEN 1 ELSE 0
    IN  IF lead = 1 \/ s[1] \in class THEN lead + RunLength(s, lead + 1, class) ELSE 0
\* The length of the first piece of a text that is not empty.
PieceLength(s) ==
    LET lengths == <<MatchContraction(s), MatchCategoryRun(s, Alphabetic),
                     MatchCategoryRun(s, Numeric), MatchCategoryRun(s, {c \in ToSet(s) : IsOther(c)})>>
        first == SelectInSeq(lengths, LAMBDA n : n > 0)
        run == RunLength(s, 1, White)
    IN  IF first > 0 THEN lengths[first] ELSE IF run = Len(s) \/ run = 1 THEN run ELSE run - 1
RECURSIVE Gpt2Split(_)
Gpt2Split(s) == IF s = <<>> THEN <<>> ELSE LET n == PieceLength(s) IN <<SubSeq(s, 1, n)>> \o Gpt2Split(From(s, n + 1))

\* Merge the leftmost pair of the lowest rank until no pair has one.
RECURSIVE Merge(_, _)
Merge(t, symbols) ==
    LET pairs == {i \in 1 .. Len(symbols) - 1 : <<symbols[i], symbols[i + 1]>> \in DOMAIN t.rank}
        R(i) == t.rank[<<symbols[i], symbols[i + 1]>>]
        best == Min({i \in pairs : \A j \in pairs : R(i) <= R(j)})
    IN  IF pairs = {} THEN symbols
        ELSE Merge(t, SubSeq(symbols, 1, best - 1) \o <<symbols[best] \o symbols[best + 1]>> \o From(symbols, best + 2))

Ids(ids) == [ok |-> TRUE, ids |-> ids]
VocabNotFound == [ok |-> FALSE, ids |-> <<>>]
BpeEncodePiece(t, piece) ==
    LET symbols == Merge(t, [i \in DOMAIN Bytes(piece) |-> Mapped(<<Bytes(piece)[i]>>)])
    IN  IF \A i \in DOMAIN symbols : symbols[i] \in DOMAIN t.vocab THEN Ids([i \in DOMAIN symbols |-> t.vocab[symbols[i]]]) ELSE VocabNotFound
JoinIds(all) == IF \A i \in DOMAIN all : all[i].ok THEN Ids(FlattenSeq([i \in DOMAIN all |-> all[i].ids])) ELSE VocabNotFound
EncodeNormalChunk(t, chunk) ==
    LET segments == SplitDigitSegments(chunk, t.isolate)
        pieces == FlattenSeq([i \in DOMAIN segments |-> Gpt2Split(segments[i])])
    IN  JoinIds([i \in DOMAIN pieces |-> BpeEncodePiece(t, pieces[i])])

\* Text of an added token becomes its id, wherever it stands.
AddedAt(t, rest) == SelectInSeq(t.added, LAMBDA a : StartsWith(rest, a.content))
RECURSIVE Encode(_, _)
Encode(t, rest) ==
    IF rest = <<>> THEN Ids(<<>>)
    ELSE LET a == AddedAt(t, rest)
             marks == {i \in 2 .. Len(rest) : AddedAt(t, From(rest, i)) > 0}
             split == IF marks = {} THEN Len(rest) ELSE Min(marks) - 1
             chunk == EncodeNormalChunk(t, SubSeq(rest, 1, split))
         IN  IF a > 0 THEN JoinIds(<<Ids(<<t.added[a].id>>), Encode(t, From(rest, Len(t.added[a].content) + 1))>>)
             ELSE IF ~chunk.ok THEN chunk ELSE JoinIds(<<chunk, Encode(t, From(rest, split + 1))>>)

Decode(t, ids) ==
    IF \E i \in DOMAIN ids : ids[i] >= Len(t.bytes) THEN [ok |-> FALSE, bytes |-> <<>>]
    ELSE [ok |-> TRUE, bytes |-> FlattenSeq([i \in DOMAIN ids |-> t.bytes[ids[i] + 1]])]

\* How long a character is that begins with a byte, 0 for none.
CharLen(lead) == CASE lead < 128 -> 1 [] lead \in 192 .. 223 -> 2 [] lead \in 224 .. 239 -> 3 [] lead \in 240 .. 247 -> 4 [] OTHER -> 0
\* Walk over whole characters: how many bytes they take, and whether a wrong byte stopped it.
RECURSIVE Walk(_, _)
Walk(buffer, pos) ==
    LET n == CharLen(buffer[pos + 1])
        wrong == n = 0 \/ (pos + n <= Len(buffer) /\ \E i \in 2 .. n : buffer[pos + i] \notin 128 .. 191)
    IN  IF pos = Len(buffer) THEN [until |-> pos, wrong |-> FALSE]
        ELSE IF wrong \/ pos + n > Len(buffer) THEN [until |-> pos, wrong |-> wrong]
        ELSE Walk(buffer, pos + n)

\* The streaming decoder: the buffer kept, and what comes out; an error keeps everything.
DecoderFeed(t, buffer, id) ==
    LET all == buffer \o t.bytes[id + 1]
        w == Walk(all, 0)
    IN  IF id >= Len(t.bytes) THEN [ok |-> FALSE, buffer |-> buffer, out |-> <<>>]
        ELSE IF w.wrong THEN [ok |-> FALSE, buffer |-> all, out |-> <<>>]
        ELSE [ok |-> TRUE, buffer |-> From(all, w.until + 1), out |-> SubSeq(all, 1, w.until)]
DecoderFinish(buffer) == [ok |-> IsUtf8(buffer), out |-> buffer]

-----------------------------------------------------------------------------
(* The chat template *)

\* Messages [role, content] between the markers start and end, then the open turn.
ChatMl(messages, start, end) ==
    FlattenSeq([i \in DOMAIN messages |-> start \o messages[i].role \o <<10>> \o messages[i].content \o end \o <<10>>])
Prompt(messages, start, end, assistant) == ChatMl(messages, start, end) \o start \o assistant \o <<10>>

-----------------------------------------------------------------------------
(* The .otm file *)

U64_MAX == BASE ^ W64 - 1
Number(data, at, w) == FoldRight(LAMBDA b, n : b + BASE * n, SubSeq(data, at + 1, at + w), 0)
Fits(data, at, n) == at + n <= Len(data)
\* A reader: its error, its offset, what it has read.
Reader(at) == [err |-> "", at |-> at, out |-> <<>>]
Fail(s, kind) == [s EXCEPT !.err = kind]
Repeat(Item(_), s, n) == FoldLeft(LAMBDA r, i : IF r.err = "" THEN Item(r) ELSE r, s, [i \in 1 .. n |-> i])
\* A counted list, behind its count.
List(Item(_), data, at) == IF Fits(data, at, W32) THEN Repeat(Item, Reader(at + W32), Number(data, at, W32)) ELSE Fail(Reader(at), "TruncatedHeader")

VocabEntry(data, s) ==
    LET from == s.at + W16
        n == Number(data, s.at, W16)
    IN  IF ~Fits(data, s.at, W16) THEN Fail(s, "TruncatedHeader")
        ELSE IF ~Fits(data, from, n) THEN Fail(s, "TruncatedTokenizerVocab")
        ELSE [s EXCEPT !.at = from + n, !.out = Append(@, SubSeq(data, from + 1, from + n))]
MergePair(data, s) ==
    IF ~Fits(data, s.at, 2 * W32) THEN Fail(s, "TruncatedHeader")
    ELSE [s EXCEPT !.at = @ + 2 * W32, !.out = Append(@, <<Number(data, s.at, W32), Number(data, s.at + W32, W32)>>)]
AddedEntry(data, s) ==
    LET from == s.at + W32 + W16
        n == Number(data, s.at + W32, W16)
        content == SubSeq(data, from + 1, from + n)
    IN  IF ~Fits(data, s.at, W32 + W16) THEN Fail(s, "TruncatedHeader")
        ELSE IF ~Fits(data, from, n) THEN Fail(s, "TruncatedAddedTokens")
        ELSE IF ~IsUtf8(content) THEN Fail(s, "InvalidUtf8")
        ELSE [s EXCEPT !.at = from + n, !.out = Append(@, <<Number(data, s.at, W32), content>>)]

\* The bytes of n weights, or why there are none: n + 31 is not checked and stops the program.
DataBytes(dtype, n) ==
    LET bytes == IF dtype = 1 THEN ((n + BLOCK - 1) \div BLOCK) * (BLOCK + W32) ELSE n * W32
    IN  IF dtype = 1 /\ n + BLOCK - 1 > U64_MAX THEN [err |-> "panic", bytes |-> 0]
        ELSE [err |-> IF bytes > U64_MAX THEN "ArithmeticOverflow" ELSE "", bytes |-> bytes]
\* Name, type, dimensions, offset and number of weights.
TensorEntry(data, s) ==
    LET nameLen == Number(data, s.at, W32)
        name == SubSeq(data, s.at + W32 + 1, s.at + W32 + nameLen)
        a == s.at + W32 + nameLen
        dtype == Number(data, a, W32)
        dims == Number(data, a + W32, W32)
        b == a + 2 * W32 + dims * W32
        offset == Number(data, b, W64)
        elements == Number(data, b + W64, W64)
        size == DataBytes(dtype, elements)
    IN  IF ~Fits(data, s.at, W32) THEN Fail(s, "TruncatedHeader")
        ELSE IF ~Fits(data, s.at + W32, nameLen) THEN Fail(s, "TruncatedTensorEntry")
        ELSE IF ~IsUtf8(name) THEN Fail(s, "InvalidUtf8")
        ELSE IF ~Fits(data, a, W32) THEN Fail(s, "TruncatedHeader")
        ELSE IF dtype \notin {0, 1} THEN Fail(s, "TokenizerFormat")
        ELSE IF ~Fits(data, a + W32, W32) THEN Fail(s, "TruncatedHeader")
        ELSE IF b > Len(data) THEN Fail(s, "TruncatedTensorShape")
        ELSE IF ~Fits(data, b, 2 * W64) THEN Fail(s, "TruncatedHeader")
        ELSE IF offset % ALIGN # 0 THEN Fail(s, "BadTensorAlignment")
        ELSE IF size.err # "" THEN Fail(s, size.err)
        ELSE IF offset + size.bytes > U64_MAX THEN Fail(s, "ArithmeticOverflow")
        ELSE IF ~Fits(data, offset, size.bytes) THEN Fail(s, "BadTensorData")
        ELSE [s EXCEPT !.at = b + 2 * W64,
                       !.out = Append(@, [name |-> name, dtype |-> dtype, shape |-> [i \in 1 .. dims |-> Number(data, a + (i + 1) * W32, W32)],
                                          offset |-> offset, elements |-> elements, data |-> SubSeq(data, offset + 1, offset + size.bytes)])]

MAGIC == 1
VERSION == 1
Load(data) ==
    LET Field(k) == Number(data, k * W32, W32)
        table == Number(data, Len(data) - W64, W64)
        vocab == List(LAMBDA s : VocabEntry(data, s), data, HEADER_SIZE)
        merges == List(LAMBDA s : MergePair(data, s), data, vocab.at)
        added == List(LAMBDA s : AddedEntry(data, s), data, merges.at)
        tensors == List(LAMBDA s : TensorEntry(data, s), data, table)
        failed == SelectSeq(<<vocab, merges, added, tensors>>, LAMBDA s : s.err # "")
        err == IF Len(data) < HEADER_SIZE + W64 THEN "TooSmall"
               ELSE IF table >= Len(data) - W64 THEN "BadTensorOffset"
               ELSE IF Field(0) # MAGIC THEN "BadMagic"
               ELSE IF Field(1) # VERSION THEN "BadVersion"
               ELSE IF Fits(data, HEADER_SIZE, W32) /\ Number(data, HEADER_SIZE, W32) # Field(2) THEN "VocabSizeMismatch"
               ELSE IF failed # <<>> THEN failed[1].err ELSE ""
    IN  IF err # "" THEN [err |-> err] ELSE [err |-> "", vocab |-> vocab.out, merges |-> merges.out, added |-> added.out, tensors |-> tensors.out]

-----------------------------------------------------------------------------
(* The forward pass: what it asks of the model, and the cache of keys and values *)

\* Weights that can be read from a tensor's bytes.
Holds(t) == IF t.dtype = 1 THEN (t.bytes \div (BLOCK + W32)) * BLOCK ELSE t.bytes \div W32
TensorNamed(m, name) == SelectInSeq(m.tensors, LAMBDA t : t.name = name)
CacheSize(m) == m.maxContext * m.nKvHeads * m.headDim
\* Whether every head finds its keys: its group's, for all positions so far, inside the cache.
KvHead(m, head) == head \div (m.nHeads \div m.nKvHeads)
HeadsFit(m, pos) ==
    \A head \in 0 .. m.nHeads - 1 :
        /\ m.nKvHeads > 0 /\ m.nHeads >= m.nKvHeads
        /\ (pos * m.nKvHeads + KvHead(m, head) + 1) * m.headDim <= CacheSize(m)
\* In order: the tensors looked up and the weights read of each.
Find(name) == [check |-> "find", name |-> name, n |-> 0]
Read(name, n) == [check |-> "read", name |-> name, n |-> n]
Heads == [check |-> "heads", name |-> <<>>, n |-> 0]
Slices == [check |-> "slices", name |-> <<>>, n |-> 0]
LayerChecks(m, l) ==
    LET kv == m.nKvHeads * m.headDim * m.dim
        At(part) == <<l, part>>
    IN  <<Find(At("input_layernorm")), Read(At("input_layernorm"), m.dim), Find(At("q_proj")), Find(At("k_proj")), Find(At("v_proj")),
          Read(At("q_proj"), m.dim * m.dim), Read(At("k_proj"), kv), Read(At("v_proj"), kv), Slices, Heads,
          Find(At("o_proj")), Read(At("o_proj"), m.dim * m.dim), Find(At("post_attention_layernorm")), Read(At("post_attention_layernorm"), m.dim),
          Find(At("gate_proj")), Find(At("up_proj")), Read(At("gate_proj"), m.hiddenDim * m.dim), Read(At("up_proj"), m.hiddenDim * m.dim),
          Find(At("down_proj")), Read(At("down_proj"), m.dim * m.hiddenDim)>>
FeedChecks(m, tok) ==
    LET embed == <<0, "embed_tokens">>
        head == IF TensorNamed(m, <<0, "lm_head">>) > 0 THEN <<0, "lm_head">> ELSE embed
    IN  <<Find(embed), Read(embed, (tok + 1) * m.dim)>> \o FlattenSeq([l \in 1 .. m.nLayers |-> LayerChecks(m, l)])
        \o <<Find(<<0, "norm">>), Read(<<0, "norm">>, m.dim), Read(head, m.vocabSize * m.dim)>>
\* "ok" moves the session on by one position, anything else leaves it.
SessionFeed(m, pos, tok) ==
    LET Passes(c) == CASE c.check = "find" -> TensorNamed(m, c.name) > 0
                       [] c.check = "read" -> LET i == TensorNamed(m, c.name) IN i > 0 => c.n <= Holds(m.tensors[i])
                       [] c.check = "slices" -> m.nHeads * m.headDim <= m.dim
                       [] c.check = "heads" -> HeadsFit(m, pos)
        checks == FeedChecks(m, tok)
        bad == SelectInSeq(checks, LAMBDA c : ~Passes(c))
    IN  IF pos >= m.maxContext THEN "ctx"
        ELSE IF bad = 0 THEN "ok" ELSE IF checks[bad].check = "find" THEN "missing" ELSE "panic"

-----------------------------------------------------------------------------
(* The sampler *)

\* A logit is <<"finite", n>> or <<"nan">>, <<"inf">>, <<"-inf">>.  The penalty divides a
\* positive one and multiplies any other, once for every time the token is in `recent`.
Penalised(l, penalty) == IF l > 0 THEN l \div penalty ELSE l * penalty
Logit(logits, recent, penalty, id) ==
    FoldLeft(LAMBDA l, r : IF r = id THEN Penalised(l, penalty) ELSE l, logits[id + 1][2], recent)
\* The tokens that can come back, and none if that is no token.  exp is the exponential
\* function; a top_p is a fraction; logits are in a unit that makes the divisions exact.
Sample(logits, allowed, recent, p, exp) ==
    LET finite == {id \in 0 .. Len(logits) - 1 : logits[id + 1][1] = "finite" /\ id \in allowed}
        L(id) == Logit(logits, recent, p.penalty, id) \div (IF p.temperature > 0 THEN p.temperature ELSE 1)
        Before(a, b) == L(a) > L(b) \/ (L(a) = L(b) /\ a < b)
        sorted == SetToSortSeq(finite, Before)
        topK == IF p.topK > 0 /\ Len(sorted) > p.topK THEN SubSeq(sorted, 1, p.topK) ELSE sorted
        Mass(n) == FoldLeft(LAMBDA s, id : s + exp[L(id)], 0, SubSeq(topK, 1, n))
        enough == {n \in DOMAIN topK : Mass(n) * p.topP[2] >= p.topP[1] * Mass(Len(topK))}
        kept == IF p.topP[1] < p.topP[2] THEN SubSeq(topK, 1, IF enough = {} THEN Len(topK) ELSE Min(enough)) ELSE topK
        greedy == p.temperature = 0 /\ p.topK = 0 /\ p.topP[1] = p.topP[2]
    IN  IF finite = {} THEN {} ELSE IF greedy THEN {sorted[1]} ELSE ToSet(kept)

-----------------------------------------------------------------------------
(* The chat engine *)

\* A configuration without stop tokens gets the first id of the end marker; it must have one.
WithStops(t, config, end) ==
    LET ids == Encode(t, end)
        found == ids.ok /\ ids.ids # <<>>
    IN  [ok |-> found, config |-> IF found /\ config.stopIds = {} THEN [config EXCEPT !.stopIds = {ids.ids[1]}] ELSE config]
\* `draws` are what the sampler returns, -1 for none; a greedy one depends on what was fed
\* and not on how often it was asked.
NewEngine(t, config, draws, greedy) ==
    [t |-> t, config |-> config, draws |-> draws, greedy |-> greedy, calls |-> 0, prompt |-> <<>>, generated |-> <<>>,
     cancelled |-> FALSE, buffer |-> <<>>, pos |-> 0]
\* A prompt longer than what is left of the context fails and leaves the context full.
Start(e, prompt) ==
    LET ids == Encode(e.t, prompt)
        room == e.config.maxContext - e.pos
    IN  IF ~ids.ok THEN [ok |-> FALSE, e |-> e]
        ELSE [ok |-> Len(ids.ids) <= room, e |-> [e EXCEPT !.prompt = ids.ids, !.pos = IF Len(ids.ids) <= room THEN @ + Len(ids.ids) ELSE e.config.maxContext]]
Cancel(e) == [e EXCEPT !.cancelled = TRUE]

\* Take what is text off the front of the buffer; bytes that are not are dropped with it.
Emit(buffer) ==
    LET until == Walk(buffer, 0).until
        front == SubSeq(buffer, 1, until)
    IN  [buffer |-> From(buffer, until + 1), text |-> IF IsUtf8(front) THEN front ELSE <<>>]
AtMax(e) == Len(e.generated) >= e.config.maxNewTokens
Text(e, text) == [e |-> e, step |-> "Text", text |-> text, reason |-> ""]
Done(e, reason) == [e |-> e, step |-> "Done", text |-> <<>>, reason |-> reason]
TextOrDone(e, text, reason) == IF text # <<>> THEN Text(e, text) ELSE Done(e, reason)
RECURSIVE Generate(_, _, _)
Generate(e, budget, text) ==
    LET id == e.draws[IF e.greedy THEN Len(e.generated) + 1 ELSE e.calls + 1]
        asked == [e EXCEPT !.calls = @ + 1]
        rest == IF IsUtf8(e.buffer) THEN e.buffer ELSE <<>>
        fed == [asked EXCEPT !.pos = @ + 1, !.generated = Append(@, id)]
        out == Emit(e.buffer \o e.t.bytes[id + 1])
        moved == [fed EXCEPT !.buffer = out.buffer]
        flushed == IF IsUtf8(out.buffer) THEN [e |-> [moved EXCEPT !.buffer = <<>>], text |-> text \o out.text \o out.buffer] ELSE [e |-> moved, text |-> text \o out.text]
    IN  IF budget = 0 THEN Text(e, text)
        ELSE IF AtMax(e) THEN Done(e, "MaxTokens")
        ELSE IF id = -1 THEN Text(asked, text)
        ELSE IF id \in e.config.stopIds THEN TextOrDone([asked EXCEPT !.buffer = <<>>], text \o rest, "EndOfTurn")
        ELSE IF e.pos >= e.config.maxContext THEN Text(asked, text)
        ELSE IF id >= Len(e.t.bytes) THEN Text(fed, text)
        ELSE IF AtMax(moved) THEN TextOrDone(flushed.e, flushed.text, "MaxTokens")
        ELSE Generate(moved, budget - 1, text \o out.text)
Step(e, budget) ==
    IF e.cancelled THEN Done(e, "Cancelled")
    ELSE IF AtMax(e) THEN Done(e, "MaxTokens")
    ELSE Generate(e, budget, <<>>)
=============================================================================
