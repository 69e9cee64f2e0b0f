------------------------------- MODULE MCWeb -------------------------------
(* The search page on a small server, and beside it what the server and the command line make of *)
(* every small reply, line, path and file: a sample is an input of those functions.             *)
EXTENDS WebPage, Rendering

VARIABLE sample

MCFound   == [r \in Repos |-> [q \in Queries |-> IF r = FirstRepo THEN <<"f1", "f2">> ELSE <<"f3">>]]
MCSymbols == [r \in Repos |-> [q \in Queries |-> <<"s1", "s2">>]]

MaxLine == 3
MaxFrames == 4
Upto(S, n) == UNION {[1 .. k -> S] : k \in 0 .. n}

Lines  == Upto({"a", "&", "<"}, MaxLine)
Tokens == Upto([len : 1 .. 2, kind : {"keyword", "plain"}], 2)
OneRange == {<<s, e>> \in (0 .. MaxLine) \X (1 .. MaxLine + 1) : s < e}
\* As verification reports them: by their start.
Ranges == {rs \in Upto(OneRange, 2) : Len(rs) = 2 => rs[1] # rs[2] /\ rs[1][1] <= rs[2][1]}
Frames == {ResultFrame("f1"), ResultFrame("f2"), StatsFrame(1), Unparsable, OtherFrame, DoneFrame, ErrorFrame}
Directories == Upto({"x", "y"}, 3)

NoSample == [kind |-> "none"]

Sample ==
  /\ sample = NoSample /\ acts = 0
  /\ \/ \E c \in Lines, t \in Tokens, r \in Ranges : sample' = [kind |-> "line", content |-> c, tokens |-> t, ranges |-> r]
     \/ \E f \in Upto(Frames, MaxFrames), r \in Repos, q \in Texts, given, c \in BOOLEAN :
          /\ q # NoText => given
          /\ sample' = [kind |-> "reply", frames |-> f, repo |-> r, q |-> q, given |-> given, connected |-> c]
     \/ \E root, cwd \in Directories, p \in Upto({"x", "z"}, 2) \ {<<>>} :
          sample' = [kind |-> "path", root |-> root, cwd |-> cwd, path |-> p]
     \/ \E total \in 0 .. 4, line \in -1 .. 5, context \in -1 .. 2, env \in -1 .. 3, bat \in BOOLEAN :
          sample' = [kind |-> "preview", total |-> total, line |-> line, context |-> context, env |-> env, bat |-> bat]
     \/ \E n \in Upto({"d", "/", "."}, 4) : sample' = [kind |-> "name", path |-> n]
  /\ UNCHANGED pageVars

MCInit == PageInit /\ sample = NoSample
MCNext == (sample = NoSample /\ PageNext /\ UNCHANGED sample) \/ Sample
MCSpec == MCInit /\ [][MCNext]_<<pageVars, sample>>

\* Whatever frames a daemon sends and wherever it stops, the pages, the JSON interface and the
\* event streams tell a whole answer from a broken one in the same way and show the same files
\* (ui.rs:436-454, proxy.rs:40-59, sse.rs:113-151).
SameAnswer == sample.kind = "reply" => Agree(sample)

LineShown(s) ==
  LET plain == Painted(s.content, <<>>)  painted == Painted(s.content, s.ranges)
  IN  /\ Browser(TokenizeHtml(s.content, s.tokens)) = plain
      /\ Covered(s.content, s.tokens) /\ s.tokens # <<>>
           => Browser(TokenizeHtmlWithMarks(s.content, s.tokens, s.ranges)) = painted
      /\ Disjoint(s.ranges)
           => /\ Browser(HighlightLine(s.content, s.ranges)) = painted
              /\ FormatSearchLine(TRUE, "p", 1, 1, s.content, s.ranges)[4] = painted

NameShown(path) ==
  LET parts == FormatFilePath(path)
  IN  /\ FlattenSeq(parts) = path
      /\ \A i \in {2, 3} : "/" \notin Range(parts[i])
      /\ parts[3] # <<>> => "." \notin Range(Tail(parts[3]))

\* What is shown is what was found: a line keeps its characters and exactly its matches are
\* marked, also inside tokens and where the ranges of a tokenised line overlap; a rewritten path
\* leads from the user's directory to the file; a preview of a line has that line in it; and a
\* coloured path is the path (ui.rs:47-86, 283-383; color.rs:14-89; paths.rs; preview.rs:26-113).
RenderedFaithfully ==
  /\ sample.kind = "line" => LineShown(sample)
  /\ sample.kind = "name" => NameShown(sample.path)
  /\ sample.kind = "path" =>
       Resolved(sample.cwd, Rewrite(PathRewriter(sample.root, sample.cwd), sample.path)) = sample.root \o sample.path
  /\ sample.kind = "preview" /\ sample.line \in 1 .. sample.total /\ (sample.env # 0 \/ sample.context # NotGiven)
       => sample.line \in RunPreview(sample.bat, sample.total, sample.line, sample.context, sample.env)
=============================================================================
