SPECIFICATION Spec
CONSTANTS
    Topics = {t1}
    NoTopic = NoTopic
    NoManifest = NoManifest
    Manifests = {m1, m2}
    TooBig = {}
    Http = {m1}
    MaxResets = 1
    MaxFlashErrors = 0
PROPERTIES CredentialsPersist
