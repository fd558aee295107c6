CONSTANTS
    LinkChars = {"a"}
    PasswordChars = {"a", " ", "="}
    MaxLen = 3
    Bundled <- MCBundled
    Remote <- MCRemote
    Null = Null
SPECIFICATION Spec
INVARIANT LinkDelivered
