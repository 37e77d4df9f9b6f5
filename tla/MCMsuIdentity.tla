--------------------------- MODULE MCMsuIdentity ---------------------------
(* An instance of MsuIdentity for TLC. *)
EXTENDS MsuIdentity

Palindrome == <<10, 1, 1, 10>>   \* the same address in either byte order

\* msu.bin of a device with other credentials, two servers and another key, which
\* holds a file it does not count; of one without credentials, which holds a
\* server it does not count; and of two that count more servers, or more files,
\* than are looked up.
MCStoredInfos ==
  {[level |-> 0, noOfIPs |-> 2, ips |-> <<Palindrome, ServerIP>>,
    noOfFileSupported |-> 1, files |-> <<Text1, App2>>, user |-> <<117, 49>>,
    password |-> <<112>>, key |-> <<127, 1, 64>>],
   [level |-> 1, noOfIPs |-> 1, ips |-> <<Palindrome, ServerIP>>,
    noOfFileSupported |-> 3, files |-> <<App2, Text1, Text2>>, user |-> <<>>,
    password |-> <<>>, key |-> TextKey],
   [level |-> 1, noOfIPs |-> 1, ips |-> <<ServerIP>>, noOfFileSupported |-> 4,
    files |-> <<App2, Text1, Text2>>, user |-> Admin, password |-> Admin,
    key |-> <<1>>],
   [level |-> 1, noOfIPs |-> 11, ips |-> <<ServerIP>>, noOfFileSupported |-> 3,
    files |-> <<App2, Text1, Text2>>, user |-> Admin, password |-> Admin,
    key |-> TextKey]}

\* Fields nobody compares, before and after the credentials in the payload.
Filler == <<68, 69>>

Text(f, p, u) ==
  [t \in AuthTags |->
     CASE t = "filename" -> f [] t = "hardwareId" -> Hardware
       [] t = "password" -> p [] t = "username" -> u [] OTHER -> Filler]

\* Right for the defaults, and for the first of the stored informations.
ForDefaults ==
  [complete |-> TRUE, level |-> 1, serverIP |-> ServerIP, from |-> ServerIP,
   transaction |-> <<1, 2, 3, 4>>, present |-> AuthTags,
   text |-> Text(Text1, Admin, Admin)]

ForStored ==
  [ForDefaults EXCEPT !.level = 0, !.serverIP = Palindrome, !.from = Palindrome,
                      !.text = Text(Text1, <<112>>, <<117, 49>>)]

Presents ==
  {{"filename", "password", "username"},
   {"filename", "hardwareId", "productId", "password", "username"},
   {"filename", "hardwareId"}, {"hardwareId", "password", "username"},
   {"filename", "username", "vendorId"}}

\* Each of them as it is, and with one thing changed.
MCRequests ==
  UNION
  {{r, [r EXCEPT !.complete = FALSE], [r EXCEPT !.level = 1 - @],
    [r EXCEPT !.serverIP = Palindrome], [r EXCEPT !.from = Palindrome],
    [r EXCEPT !.from = <<192, 168, 2, 12>>, !.serverIP = <<192, 168, 2, 12>>],
    [r EXCEPT !.serverIP = Palindrome, !.from = Palindrome],
    [r EXCEPT !.transaction = <<116, 101, 120, 116>>],
    [r EXCEPT !.transaction = <<127, 1, 64, 127>>],
    [r EXCEPT !.text["filename"] = <<70>>], [r EXCEPT !.text["filename"] = App2],
    [r EXCEPT !.text["hardwareId"] = <<50>>], [r EXCEPT !.text["hardwareId"] = <<>>],
    [r EXCEPT !.text["password"] = <<112, 112>>],
    [r EXCEPT !.text["username"] = <<117>>]}
     \cup {[r EXCEPT !.present = p] : p \in Presents}
   : r \in {ForDefaults, ForStored,
            [ForDefaults EXCEPT !.serverIP = Palindrome, !.from = Palindrome]}}
=============================================================================
