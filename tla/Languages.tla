----------------------------- MODULE Languages ------------------------------
(***************************************************************************)
(* The tables of languages and symbol kinds that the parts of the program  *)
(* have to agree on: types.rs detects a language from a path and encodes   *)
(* it in metadata, query.rs reads it from a filter, grammar.rs says which  *)
(* languages are parsed and symbol_extractor.rs which definitions are      *)
(* taken from them.  Names that are compared regardless of case are        *)
(* written in lower case.                                                  *)
(***************************************************************************)
EXTENDS Integers, SequencesExt

\* A language, how it is shown, the names a filter may give it, its extensions.
L(variant, shown, names, extensions) ==
  [variant |-> variant, shown |-> shown, names |-> names, extensions |-> extensions]

\* The variants of Language but Unknown; the place of one, from 0, is its code.
LanguageTable == <<
  L("Rust", "rust", {"rust", "rs"}, {"rs"}),
  L("Python", "python", {"python", "py"}, {"py", "pyi", "pyw", "pyx", "pxd"}),
  L("TypeScript", "typescript", {"typescript", "ts"}, {"ts", "tsx", "mts", "cts"}),
  L("JavaScript", "javascript", {"javascript", "js"}, {"js", "jsx", "mjs", "cjs"}),
  L("Go", "go", {"go"}, {"go"}),
  L("C", "c", {"c"}, {"c", "h"}),
  L("Cpp", "c++", {"cpp", "c++", "cxx"}, {"cpp", "cxx", "cc", "hpp", "hxx", "hh"}),
  L("Java", "java", {"java"}, {"java"}),
  L("Ruby", "ruby", {"ruby", "rb"}, {"rb", "rbi", "rake", "gemspec", "jbuilder", "ru", "podspec"}),
  L("Shell", "shell", {"shell", "sh", "bash"}, {"sh", "bash", "zsh", "fish", "csh", "tcsh"}),
  L("Markdown", "markdown", {"markdown", "md"}, {"md", "markdown", "mdx", "Rmd", "rmd"}),
  L("Yaml", "yaml", {"yaml", "yml"}, {"yml", "yaml"}),
  L("Toml", "toml", {"toml"}, {"toml"}),
  L("Json", "json", {"json"}, {"json", "jsonc", "json5", "jsonl", "geojson"}),
  L("Xml", "xml", {"xml"}, {"xml", "xsl", "xslt", "svg", "xsd", "wsdl", "dtd"}),
  L("Html", "html", {"html", "htm"}, {"html", "htm"}),
  L("Css", "css", {"css"}, {"css"}),
  L("Scss", "scss", {"scss"}, {"scss"}),
  L("Sass", "sass", {"sass"}, {"sass"}),
  L("Sql", "sql", {"sql"}, {"sql", "ddl", "hql"}),
  L("Protobuf", "protobuf", {"protobuf", "proto"}, {"proto"}),
  L("Dockerfile", "dockerfile", {"dockerfile", "docker"}, {}),
  L("Hcl", "hcl", {"hcl", "terraform", "tf"}, {"tf", "hcl", "tfvars"}),
  L("Kotlin", "kotlin", {"kotlin", "kt"}, {"kt", "kts"}),
  L("Swift", "swift", {"swift"}, {"swift"}),
  L("Scala", "scala", {"scala", "sc"}, {"scala", "sc", "sbt"}),
  L("Elixir", "elixir", {"elixir", "ex"}, {"ex", "exs"}),
  L("Erlang", "erlang", {"erlang", "erl"}, {"erl", "hrl"}),
  L("Haskell", "haskell", {"haskell", "hs"}, {"hs", "lhs"}),
  L("OCaml", "ocaml", {"ocaml", "ml"}, {"ml", "mli"}),
  L("Lua", "lua", {"lua"}, {"lua"}),
  L("Perl", "perl", {"perl", "pl"}, {"pl", "pm"}),
  L("R", "r", {"r"}, {"r", "R"}),
  L("Dart", "dart", {"dart"}, {"dart"}),
  L("Zig", "zig", {"zig"}, {"zig"}),
  L("Nix", "nix", {"nix"}, {"nix"}),
  L("PlainText", "plain text", {"plaintext", "text", "txt"}, {"txt", "text", "log"}),
  L("Starlark", "starlark", {"starlark", "bazel", "bzl"}, {"bazel", "bzl", "star", "starlark"}),
  L("Jsonnet", "jsonnet", {"jsonnet"}, {"jsonnet", "libsonnet"}),
  L("Haml", "haml", {"haml"}, {"haml"}),
  L("Csv", "csv", {"csv"}, {"csv", "tsv"}),
  L("GraphQL", "graphql", {"graphql", "gql"}, {"graphql", "gql"}),
  L("Erb", "erb", {"erb"}, {"erb"}),
  L("Template", "template", {"template", "jinja", "jinja2", "j2"}, {"j2", "jinja", "jinja2", "mako"}),
  L("ReStructuredText", "restructuredtext", {"restructuredtext", "rst"}, {"rst"}),
  L("Ejs", "ejs", {"ejs"}, {"ejs"}),
  L("Groovy", "groovy", {"groovy", "gradle"}, {"groovy", "gradle", "gvy", "gy", "gsh"}),
  L("Batch", "batch", {"batch", "bat", "cmd"}, {"bat", "cmd"}),
  L("CSharp", "c#", {"csharp", "c#", "cs"}, {"cs", "csx"}),
  L("Vue", "vue", {"vue"}, {"vue"}),
  L("Svelte", "svelte", {"svelte"}, {"svelte"}),
  L("PowerShell", "powershell", {"powershell", "ps1"}, {"ps1"}),
  L("Less", "less", {"less"}, {"less"}),
  L("CoffeeScript", "coffeescript", {"coffeescript", "coffee"}, {"coffee", "cjsx"}),
  L("Solidity", "solidity", {"solidity", "sol"}, {"sol"}),
  L("Clojure", "clojure", {"clojure", "clj"}, {"clj", "cljs", "cljc", "edn"}),
  L("Julia", "julia", {"julia", "jl"}, {"jl"}),
  L("Assembly", "assembly", {"assembly", "asm"}, {"asm", "s", "S", "nasm"}),
  L("Nim", "nim", {"nim"}, {"nim"}) >>

Unknown == "Unknown"

LanguageName == {LanguageTable[k].variant : k \in 1..Len(LanguageTable)} \cup {Unknown}

\* The entry that satisfies a test, or 0.
Entry(test(_)) == SelectInSeq(LanguageTable, test)

VariantOf(k) == IF k = 0 THEN Unknown ELSE LanguageTable[k].variant

\* to_u16 and from_u16; a code of a later version reads as Unknown.
UnknownCode == 65535

ToU16 == [l \in LanguageName |->
  IF l = Unknown THEN UnknownCode ELSE Entry(LAMBDA e : e.variant = l) - 1]

FromU16(code) == IF code < Len(LanguageTable) THEN LanguageTable[code + 1].variant ELSE Unknown

\* from_extension; case matters here.
FromExtension(extension) == VariantOf(Entry(LAMBDA e : extension \in e.extensions))

\* from_path, of a file name's stem (Dockerfile, or any) and extension ("" for none).
FromPath(name) == IF name.stem = "Dockerfile" THEN "Dockerfile" ELSE FromExtension(name.extension)

\* match_language; Unknown stands for its error, as no name means it.
MatchLanguage(name) == VariantOf(Entry(LAMBDA e : name \in e.names))

\* Display, in lower case.
Display(l) == IF l = Unknown THEN "unknown" ELSE LanguageTable[ToU16[l] + 1].shown

-----------------------------------------------------------------------------
(* Symbol kinds.                                                           *)

\* A kind, its short label and the aliases from_str_loose takes; its code counts from 0.
KindTable ==
  LET K(variant, label, aliases) == [variant |-> variant, label |-> label, aliases |-> aliases] IN
  << K("Function", "fn", {"function", "fn", "func", "def"}), K("Struct", "struct", {"struct"}),
     K("Trait", "trait", {"trait"}), K("Enum", "enum", {"enum"}),
     K("Interface", "interface", {"interface", "iface"}), K("Class", "class", {"class"}),
     K("Method", "method", {"method"}), K("Constant", "const", {"constant", "const"}),
     K("Variable", "var", {"variable", "var", "let"}), K("Type", "type", {"type", "typedef", "alias"}),
     K("Module", "mod", {"module", "mod", "namespace", "package", "ns"}) >>

\* from_str_loose; 0 where no kind has the name.
FromStrLoose(name) == SelectInSeq(KindTable, LAMBDA k : name \in k.aliases)

\* to_u8 and from_u8.
ToU8(kind)   == kind - 1
FromU8(code) == IF code < Len(KindTable) THEN code + 1 ELSE 0

\* short_label.
ShortLabel(kind) == KindTable[kind].label

\* kind_from_capture, and 0 for other captures.
KindFromCapture(capture) == SelectInSeq(KindTable, LAMBDA k : capture = k.variant)

-----------------------------------------------------------------------------
(* What is parsed.                                                         *)

\* The definitions the symbol query of a grammar captures.
SymbolQuery == [
  RUST       |-> {"Function", "Struct", "Enum", "Trait", "Type", "Constant", "Module", "Method"},
  PYTHON     |-> {"Function", "Class"},
  TYPESCRIPT |-> {"Function", "Class", "Interface", "Type", "Enum", "Method"},
  GO         |-> {"Function", "Method", "Type", "Variable", "Constant"},
  RUBY       |-> {"Function", "Method", "Class", "Module", "Constant"},
  JAVA       |-> {"Method", "Class", "Interface", "Enum", "Function"},
  C          |-> {"Function", "Struct", "Enum", "Type"},
  NONE       |-> {} ]

\* language_config: the symbol query of every language that has a grammar.
LanguageConfig ==
  [l \in {"Rust", "Python", "TypeScript", "JavaScript", "Go", "C", "Cpp", "Ruby", "Java"} |->
     CASE l = "Rust" -> "RUST" [] l = "Python" -> "PYTHON" [] l = "Go" -> "GO"
       [] l \in {"TypeScript", "JavaScript"} -> "TYPESCRIPT" [] l \in {"C", "Cpp"} -> "C"
       [] l = "Ruby" -> "RUBY" [] l = "Java" -> "JAVA"]
  @@ [l \in {"Shell", "Swift", "CSharp", "Scala", "Yaml", "Toml", "Json", "Xml", "Html", "Css", "Sql"} |->
        "NONE"]

Captured(language) == SymbolQuery[LanguageConfig[language]]
=============================================================================
