\* Two administrators edit different fields of one host at once; detection and
\* the deletion come in between.
CONSTANTS
  Admins = {a1, a2}
  Fields = {"name", "status"}
  Required = {"name", "status"}
  Values = {"one"}
  Empty = ""
  Systems = {"linux"}
  NoHost = NoHost
SPECIFICATION HostSpec
INVARIANTS
  HostTypeOK
  HostFieldsAccounted
CHECK_DEADLOCK FALSE
