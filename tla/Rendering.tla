----------------------------- MODULE Rendering -----------------------------
(***************************************************************************)
(* How the front ends show what was found: a matching line with its marks  *)
(* in HTML and on a terminal (ferret-web/src/ui.rs, ferret-cli/src/        *)
(* color.rs), a path as the user's shell has to spell it (paths.rs), and   *)
(* the window of a file around a line (preview.rs).                        *)
(*                                                                         *)
(* A text is a sequence of characters; HTML is a sequence of characters,   *)
(* entity names and tags.  Offsets count from 0 and ranges exclude their   *)
(* end, as in the code.                                                    *)
(***************************************************************************)
EXTENDS Integers, Sequences, FiniteSets, SequencesExt

Least(a, b) == IF a < b THEN a ELSE b
Saturating(n) == IF n < 0 THEN 0 ELSE n

\* content[from..to]
Slice(content, from, to) == SubSeq(content, from + 1, to)

Pieces(s) == FlattenSeq(s)

-----------------------------------------------------------------------------
(* HTML. *)

\* str::replace
Replaced(s, c, by) == Pieces([i \in DOMAIN s |-> IF s[i] = c THEN by ELSE <<s[i]>>])

\* The ampersands last: those of the entities are escaped again.
HtmlEscapeLate(s) ==
  Replaced(Replaced(Replaced(s, "<", <<"&", "lt;">>), ">", <<"&", "gt;">>), "&", <<"&", "amp;">>)

HtmlEscape(s) ==
  Replaced(Replaced(Replaced(Replaced(s, "&", <<"&", "amp;">>), "<", <<"&", "lt;">>),
                    ">", <<"&", "gt;">>), "\"", <<"&", "quot;">>)

\* token_css_class: a kind without a colour of its own gets no span.
TokenCssClass(kind) == IF kind \in {"keyword", "string", "comment"} THEN <<kind>> ELSE <<>>

Spanned(kind, html) ==
  IF TokenCssClass(kind) = <<>> THEN html ELSE <<"<span>">> \o html \o <<"</span>">>

Marked(html) == <<"<mark>">> \o html \o <<"</mark>">>

\* highlight_line and highlight_ranges walk the ranges with one position.
MarkRanges(content, ranges, Plain(_), Mark(_)) ==
  LET n == Len(content)
      step(st, r) ==
        LET start == Least(r[1], n)  end == Least(r[2], n)
        IN  [out |-> st.out \o (IF start > st.pos THEN Plain(Slice(content, st.pos, start)) ELSE <<>>)
                            \o Mark(Slice(content, start, end)),
             pos |-> end]
      done == FoldLeft(step, [out |-> <<>>, pos |-> 0], ranges)
  IN  done.out \o Plain(Slice(content, done.pos, n))

HighlightLine(content, ranges) ==
  LET mark(s) == Marked(HtmlEscape(s)) IN MarkRanges(content, ranges, HtmlEscape, mark)

\* Tokens follow each other; [start, end) of token i, cut at the end of the line.
TokenStart(content, tokens, i) ==
  Least(FoldLeft(LAMBDA sum, t : sum + t.len, 0, SubSeq(tokens, 1, i - 1)), Len(content))
TokenEnd(content, tokens, i) == TokenStart(content, tokens, i + 1)
Remainder(content, tokens) ==
  HtmlEscape(Slice(content, TokenStart(content, tokens, Len(tokens) + 1), Len(content)))

TokenizeHtml(content, tokens) ==
  Pieces([i \in DOMAIN tokens |->
            Spanned(tokens[i].kind,
                    HtmlEscape(Slice(content, TokenStart(content, tokens, i), TokenEnd(content, tokens, i))))])
  \o Remainder(content, tokens)

\* The first range that ends after the cursor decides what comes next: a gap or a mark.
RECURSIVE MarkedFrom(_, _, _, _)
MarkedFrom(content, ranges, cursor, end) ==
  IF cursor >= end THEN <<>>
  ELSE LET next == SelectInSeq(ranges, LAMBDA r : r[2] > cursor)
           rs   == Least(ranges[next][1], Len(content))
           re   == Least(ranges[next][2], Len(content))
       IN  IF next = 0 THEN HtmlEscape(Slice(content, cursor, end))
           ELSE IF rs > cursor
             THEN HtmlEscape(Slice(content, cursor, Least(rs, end)))
                    \o MarkedFrom(content, ranges, Least(rs, end), end)
             ELSE Marked(HtmlEscape(Slice(content, cursor, Least(re, end))))
                    \o MarkedFrom(content, ranges, Least(re, end), end)

\* A match inside a token gets its mark inside the token's span; the remainder gets none.
TokenizeHtmlWithMarks(content, tokens, ranges) ==
  IF tokens = <<>> THEN HighlightLine(content, ranges)
  ELSE IF ranges = <<>> THEN TokenizeHtml(content, tokens)
  ELSE Pieces([i \in DOMAIN tokens |->
                 Spanned(tokens[i].kind, MarkedFrom(content, ranges, TokenStart(content, tokens, i),
                                                    TokenEnd(content, tokens, i)))])
       \o Remainder(content, tokens)

(* What a browser makes of it: the characters in order, each with whether it *)
(* is inside a mark.  A bare "<" begins a tag nobody wrote, and loses it.     *)
Entities == [e \in {"amp;", "lt;", "gt;", "quot;"} |->
               CASE e = "amp;" -> "&" [] e = "lt;" -> "<" [] e = "gt;" -> ">" [] e = "quot;" -> "\""]

Browser(html) ==
  LET step(st, c) ==
        IF st.amp THEN IF c \in DOMAIN Entities
                       THEN [st EXCEPT !.amp = FALSE, !.text = Append(@, <<Entities[c], st.mark>>)]
                       ELSE [st EXCEPT !.amp = (c = "&"), !.text = Append(@, <<"&", st.mark>>)]
        ELSE IF c = "&" THEN [st EXCEPT !.amp = TRUE]
        ELSE IF c = "<mark>" THEN [st EXCEPT !.mark = TRUE]
        ELSE IF c = "</mark>" THEN [st EXCEPT !.mark = FALSE]
        ELSE IF c \in {"<span>", "</span>", "<"} THEN st
        ELSE [st EXCEPT !.text = Append(@, <<c, st.mark>>)]
  IN  FoldLeft(step, [text |-> <<>>, mark |-> FALSE, amp |-> FALSE], html).text

-----------------------------------------------------------------------------
(* The terminal. *)

Styled(mark, s) == [i \in DOMAIN s |-> <<s[i], mark>>]

\* highlight_ranges: characters with whether they are red.
HighlightRanges(content, ranges) ==
  LET plain(s) == Styled(FALSE, s)  red(s) == Styled(TRUE, s)
  IN  MarkRanges(content, ranges, plain, red)

\* format_file_path: the directory up to the last "/", the stem, the extension with its dot.
FormatFilePath(path) ==
  LET slash == SelectLastInSeq(path, LAMBDA c : c = "/")
      dot   == SelectLastInSeq(path, LAMBDA c : c = ".")
      cut   == IF dot > slash THEN dot - 1 ELSE Len(path)
  IN  <<SubSeq(path, 1, slash), SubSeq(path, slash + 1, cut), SubSeq(path, cut + 1, Len(path))>>

\* format_search_line: path, line, column and content, each in its colour or none at all.
FormatSearchLine(enabled, path, line, col, content, ranges) ==
  <<path, line, col, IF enabled THEN HighlightRanges(content, ranges) ELSE Styled(FALSE, content)>>

\* The text with exactly the characters of the ranges marked.
Painted(content, ranges) ==
  [i \in DOMAIN content |-> <<content[i], \E r \in Range(ranges) : r[1] < i /\ i <= r[2]>>]

Disjoint(ranges) == \A i, j \in DOMAIN ranges : i < j => ranges[i][2] <= ranges[j][1]
Covered(content, tokens) == TokenStart(content, tokens, Len(tokens) + 1) = Len(content)

-----------------------------------------------------------------------------
(* Paths.  A path is the sequence of its components, an absolute one is      *)
(* marked as such.                                                         *)

\* PathRewriter::new, both directories resolved.
PathRewriter(root, cwd) ==
  IF cwd = root THEN [is |-> "identity", dir |-> <<>>]
  ELSE IF IsPrefix(root, cwd) THEN [is |-> "relative", dir |-> SubSeq(cwd, Len(root) + 1, Len(cwd))]
  ELSE [is |-> "absolute", dir |-> root]

DiffRelativePaths(target, base) ==
  LET k == Len(LongestCommonPrefix({target, base}))
  IN  [i \in 1 .. Len(base) - k |-> ".."] \o SubSeq(target, k + 1, Len(target))

Rewrite(rewriter, path) ==
  CASE rewriter.is = "identity" -> [absolute |-> FALSE, path |-> path]
    [] rewriter.is = "relative" -> [absolute |-> FALSE, path |-> DiffRelativePaths(path, rewriter.dir)]
    [] rewriter.is = "absolute" -> [absolute |-> TRUE, path |-> rewriter.dir \o path]

\* The file a shell in directory cwd reaches by a path.
Resolved(cwd, p) ==
  FoldLeft(LAMBDA at, c : IF c = ".." THEN Front(at) ELSE Append(at, c),
           IF p.absolute THEN <<>> ELSE cwd, p.path)

-----------------------------------------------------------------------------
(* The preview of a file around a line. *)

NotGiven == -1

\* Twice the context and the line itself, else the environment's FZF_PREVIEW_LINES, else the file.
PreviewLines(context, env, total) ==
  IF context # NotGiven THEN context * 2 + 1 ELSE IF env # NotGiven THEN env ELSE total

\* The lines the built-in preview prints, numbered from 1.
RenderBuiltinPreview(total, line, preview) ==
  LET start == IF line = NotGiven THEN 0 ELSE Saturating(Saturating(line - 1) - (preview \div 2))
      end   == Least(start + preview, total)
  IN  {i + 1 : i \in start .. end - 1}

\* bat's --line-range.
RunBatPreview(total, line, context) ==
  LET ctx == IF context = NotGiven THEN 20 ELSE context
  IN  IF line = NotGiven THEN 1 .. total ELSE (Saturating(line - ctx) .. line + ctx) \cap (1 .. total)

RunPreview(bat, total, line, context, env) ==
  IF bat THEN RunBatPreview(total, line, context)
  ELSE RenderBuiltinPreview(total, line, PreviewLines(context, env, total))
=============================================================================
