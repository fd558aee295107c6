CONSTANTS
    LinkChars = {"a"}
    PasswordChars = {"a", "&", "+", "#"}
    MaxLen = 2
    Bundled <- MCBundled
    Remote <- MCRemote
    Null = Null
SPECIFICATION Spec
INVARIANT LinkDelivered
