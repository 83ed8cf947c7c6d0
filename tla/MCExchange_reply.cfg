\* Every request with every payload of up to two bytes, every combination of
\* flags, four dictionaries, both builds, and payloads whole and in pieces; the
\* behaviour ends with the exchange.
CONSTANTS
  Width = 3
  DictFiles <- Files
  Payloads <- UpTo2
  Name <- Foo
  Size <- Three
  Content <- Bar
  Listing <- Names
  Headers <- Ranges
  ProxyHeader <- Guess
  Junk <- Fresh
SPECIFICATION Spec
INVARIANTS TypeOK RepliesFit MemoryKept DecodersAgree CodecsKeepPayload
CHECK_DEADLOCK FALSE
