SPECIFICATION Spec
CONSTANTS
  Second = 2
  MaxTtlLimit = 12
  Zip32Max = 50
  MaxFilesCeiling = 2
  MaxManifestCeiling = 18
  KdfMin = 9
  KdfMax = 10
  Cpus = 4
  Unset = Unset
  Absent = Absent
  Wordlist <- SomeWords
  Letters = {"a", "b"}
  Alphabets <- Alphabet
  OtherIdChars = {"."}
  MaxCount = 2
  MaxIdLen = 9
  PassphraseWords = 2
  EntropyRange = 8
  Defaults <- Setting
  ConfigFiles <- Files
  Environments <- Environment
  ManifestBase = 2
  TextEntry = 3
  FileEntryBase = 3
  HeaderBase = 2
  TagLen = 1
  MaxNameBytes = 3
  MaxMimeBytes = 1
  Page = page
  Cli = cli
  Senders = {page, cli}
  Pins = {p, q}
  None = None
  FileIds = {"f", "g"}
  NameBytes <- Names
  MimeBytes <- Mimes
  Sizes = {9, 10}
  Texts = {0, 9}
  MaxStored = 2
  Sessions = {{page}, {cli}}
  Minute = 3
  MaxPicked = 2
  Unit <- Units
  U64 = 9
  TtlArgs <- Ttls
  MaxNamed = 2
INVARIANTS
  SendingTypeOK
  UploadedAsChecked
  WhatIsShownOpens
CHECK_DEADLOCK FALSE
